---- MODULE Spec2Model ----
(***************************************************************************)
(* Model of the swarm engine of ratorx/continuity: the shared piece store  *)
(* (torrent/storage.rs), the per-connection receiver and sender threads    *)
(* (torrent/connection/{receiver,sender,mod}.rs) and the in-order piece    *)
(* selector (torrent/selection/inorder.rs).                                *)
(*                                                                         *)
(* Atomicity follows the locks of the source: one action is one section    *)
(* under the store's reader/writer lock together with the thread-local     *)
(* code around it.  Receiver::piece takes the store lock twice (a read     *)
(* section for the ownership check, a write section for store), so it is   *)
(* two actions.  A SHA-1 digest is modelled as an injective tag of the     *)
(* hashed bytes.  `left` is a u32 and wraps as in a release build; the      *)
(* model writes a u32 above 2^31 - 1 as the negative number congruent to   *)
(* it modulo 2^32.                                                         *)
(***************************************************************************)
EXTENDS Integers, Sequences, FiniteSets, TLC

\* ------------------------------------------------------------------ bounds
\* Total payload length N of the modelled torrent, in bytes.
Length == 3
\* Piece length L of the modelled torrent, in bytes.
PieceLength == 2
\* Largest value of a payload byte in the model (bytes range over 0..MaxByte).
MaxByte == 3
\* Most commands that may wait in one sender's command channel.
MaxChan == 2
\* Number of peer messages and choker commands the environment issues.
MaxEvents == 4
\* The same budget for the specifications that are checked under fairness.
MaxEventsLive == 2
\* The same for the upload specification.
MaxEventsServe == 3
\* Number of peer messages fed to one assembler in the assembler specification.
MaxChunks == 3

\* ------------------------------------------------------- program constants
QUEUE_LENGTH == 5

\* The connections of the model, named by their peer ids.
Peers == {"p1", "p2"}

\* ---------------------------------------------------------------- metainfo
num_pieces == 1 + ((Length - 1) \div PieceLength)

piece_size(index) ==
    IF index = num_pieces - 1
    THEN Length - (num_pieces - 1) * PieceLength
    ELSE PieceLength

PieceIdx == 0 .. (num_pieces - 1)
Byte == 0 .. MaxByte

\* SHA-1, collision free: the digest determines the hashed bytes.
Sha1(bytes) == <<"sha1", bytes>>

\* The payload the torrent was made from: byte k of the payload.
PayloadByte(k) == (k + 1) % 2
Payload(index) ==
    [k \in 1 .. piece_size(index) |-> PayloadByte(index * PieceLength + k - 1)]

\* info.pieces: the published digest of every piece.
pieces(index) == Sha1(Payload(index))

verify_piece(index, piece) == Sha1(piece) = pieces(index)

\* ------------------------------------------------------------ small helpers
Max(S) == CHOOSE x \in S : \A y \in S : y <= x
Min(S) == CHOOSE x \in S : \A y \in S : x <= y

RECURSIVE SortedSeq(_)
SortedSeq(S) == IF S = {} THEN <<>> ELSE <<Min(S)>> \o SortedSeq(S \ {Min(S)})

Take(s, n) == SubSeq(s, 1, IF n < Len(s) THEN n ELSE Len(s))
Range(s) == {s[k] : k \in 1 .. Len(s)}

\* ---------------------------------------------------------- piece assembler
\* PieceBuilder: remaining bytes and the chunks received so far.
PieceBuilder_new(index) == [remaining |-> piece_size(index), chunks |-> <<>>]

\* The buffer add() builds on completion: zeroes, then every chunk written at
\* its begin offset in arrival order (a later chunk overwrites an earlier one).
Assemble(size, chunks) ==
    [k \in 1 .. size |->
        LET covering == {j \in 1 .. Len(chunks) :
                            /\ chunks[j].begin < k
                            /\ k <= chunks[j].begin + Len(chunks[j].data)}
        IN  IF covering = {} THEN 0
            ELSE chunks[Max(covering)].data[k - chunks[Max(covering)].begin]]

AddVerifies(index, v) == verify_piece(index, v)

\* PieceBuilder::add.  res is Complete, Incomplete or the error's name; pb is
\* the builder afterwards; v the returned payload.
PieceBuilder_add(pb, index, chunk) ==
    LET size == piece_size(index)
        len  == Len(chunk.data)
    IN  IF len > pb.remaining
        THEN [res |-> "InvalidSize", pb |-> pb, v |-> <<>>]
        ELSE IF chunk.begin >= size
        THEN [res |-> "InvalidBegin", pb |-> pb, v |-> <<>>]
        ELSE IF len + chunk.begin > size
        THEN [res |-> "InsufficientSize", pb |-> pb, v |-> <<>>]
        ELSE IF size = pb.remaining /\ len = pb.remaining
        THEN [res |-> "Complete", pb |-> pb, v |-> chunk.data]
        ELSE LET pb2 == [remaining |-> pb.remaining - len,
                         chunks |-> Append(pb.chunks, chunk)]
                 buf == Assemble(size, pb2.chunks)
             IN  IF pb2.remaining = 0
                 THEN IF ~AddVerifies(index, buf)
                      THEN [res |-> "InvalidPiece", pb |-> pb2, v |-> <<>>]
                      ELSE [res |-> "Complete", pb |-> pb2, v |-> buf]
                 ELSE [res |-> "Incomplete", pb |-> pb2, v |-> <<>>]

\* ------------------------------------------------------------------- state
VARIABLES
    data,          \* PieceStore.data: the status of every piece
    inprogress,    \* PieceStore.inprogress: peer id -> indices it was assigned
    left,          \* PieceStore.left (u32)
    handlers,      \* PieceStore.handlers: the registered command channels
    next,          \* PieceStore.next: first piece not yet written to stdout
    stdout,        \* the piece indices written to stdout, in order
    state,         \* Connection.state: the four flags of every connection
    availability,  \* Connection.availability: the pieces the peer claims
    chan,          \* the sender's command channel (mpsc), oldest first
    registered,    \* Connection::new has registered the channel with the store
    rpc,           \* receiver thread: where it is
    rstore,        \* receiver thread: the completed piece it is about to store
    piece_buffer,  \* Receiver.piece_buffer: index -> PieceBuilder
    bitfield_received, \* Receiver.bitfield_received
    spc,           \* sender thread: where it is
    requests,      \* Sender.requests: queued Request messages (piece indices)
    pending,       \* Sender.pending
    spieces,       \* Sender.pieces: queued Piece messages
    wbuf,          \* Sender.writer holds written bytes that are not flushed
    wire,          \* the messages written to Sender.writer, where tapped
    sock,          \* the TCP connection: open, broken (by the peer) or shutdown
    metrics,       \* Connection.metrics: num_downloaded and num_uploaded
    instants,      \* the live values a connection went through during the
                   \* update_snapshot in progress
    budget,        \* environment events still to come
    bpb,           \* assembler specification: the builder under test
    bidx,          \* assembler specification: its piece index
    bres,          \* assembler specification: result of the last add
    bn             \* assembler specification: chunks still to come

VARIABLES
    connections,   \* Choke.connections: the active list, in Vec order
    optimistic_unchoke, \* Choke.optimistic_unchoke: <<>> or <<connection>>
    conn,          \* the choker's connections: live state, counters, channel
    snapshot,      \* Connection.snapshot of each of them
    optimistic_unchoke_counter, \* the main loop's counter
    phase,         \* the main loop: "download" or "seed"
    ticks,         \* choker ticks of the current phase so far
    flag,          \* the optimistic_unchoke argument of the last tick
    upc            \* update_snapshot: the connection and the fields copied

VARIABLES
    history,       \* Rare.history: the availability last seen of each id
    rarity,        \* Rare.rarity: <<>> until the first call
    selected       \* the last call of Rare::request_pieces and its result

VARIABLES
    stream,        \* codec: the bytes written by Message::send and not yet read
    sent,          \* codec: the messages written and not yet parsed
    parsed         \* codec: the last Message::recv, its result and its original

VARIABLES
    bitmap,          \* bitmap: the availability BitVec of one connection
    bitmap_received, \* bitmap: its Receiver.bitfield_received
    bitmap_threads,  \* bitmap: its receiver and sender threads
    bitmap_poisoned, \* bitmap: a thread panicked holding the availability lock
    bitmap_haves     \* bitmap: the indices of the Have messages it has written

VARIABLES
    timers           \* keep-alive: the time the senders have waited and kept silent

VARIABLES
    locks,           \* locking: for every lock its writer and its readers
    threads,         \* locking: for every thread the lock steps left of its handler
    writer_first     \* locking: a waiting writer keeps new readers out

VARIABLES
    queue            \* pipelining: one sender's queues over a longer torrent

storeVars == <<data, inprogress, left, handlers, next, stdout>>
connVars  == <<state, availability, chan, registered, sock>>
recvVars  == <<rpc, rstore, piece_buffer, bitfield_received>>
sendVars  == <<spc, requests, pending, spieces, wbuf, wire>>
builderVars == <<bpb, bidx, bres, bn>>
chokeVars == <<connections, optimistic_unchoke, conn, snapshot,
               optimistic_unchoke_counter, phase, ticks, flag, upc>>
\* The variables of the specifications of single units.
selVars == <<history, rarity, selected>>
timeVars == <<timers>>
lockVars == <<locks, threads, writer_first>>
queueVars == <<queue>>
\* The variables of the specifications of pure functions.
codecVars == <<stream, sent, parsed>>
mapVars == <<bitmap, bitmap_received, bitmap_threads, bitmap_poisoned, bitmap_haves>>
pureVars == <<selVars, codecVars, mapVars, timeVars, lockVars, queueVars>>
unitVars == <<chokeVars, pureVars>>
vars == <<data, inprogress, left, handlers, next, stdout, state, availability,
          chan, registered, rpc, rstore, piece_buffer, bitfield_received, spc,
          requests, pending, spieces, wbuf, wire, sock, budget, bpb, bidx, bres, bn, metrics, instants, unitVars>>

\* --------------------------------------------------------------- piece store
Absent == [st |-> "Absent", by |-> "", payload |-> <<>>]
Requested(id) == [st |-> "Requested", by |-> id, payload |-> <<>>]
Downloaded(v) == [st |-> "Downloaded", by |-> "", payload |-> v]

State_default == [client_choked |-> TRUE, client_interested |-> FALSE,
                  peer_choked |-> TRUE, peer_interested |-> FALSE]

NoStore == [index |-> 0, payload |-> <<>>]
NoBuilderResult == [res |-> "None", pb |-> PieceBuilder_new(0), v |-> <<>>]

\* The state in which the model starts: PieceStore::new, then Connection::new
\* for every connection, the handshakes exchanged, every sender past its
\* initial BitField and blocked on its channel, every receiver in its loop.
\* reg tells whether Connection::new has registered the channels already,
\* tap whether the messages the senders write are recorded.
Established(events, reg, tap) ==
    /\ data = [i \in PieceIdx |-> Absent]
    /\ inprogress = [id \in {} |-> {}]
    /\ left = num_pieces
    /\ handlers = IF reg THEN Peers ELSE {}
    /\ next = 0
    /\ stdout = <<>>
    /\ state = [c \in Peers |-> State_default]
    /\ availability = [c \in Peers |-> {}]
    /\ chan = [c \in Peers |-> <<>>]
    /\ registered = [c \in Peers |-> reg]
    /\ rpc = [c \in Peers |-> "run"]
    /\ rstore = [c \in Peers |-> NoStore]
    /\ piece_buffer = [c \in Peers |-> [i \in {} |-> PieceBuilder_new(0)]]
    /\ bitfield_received = [c \in Peers |-> FALSE]
    /\ spc = [c \in Peers |-> "wait"]
    /\ requests = [c \in Peers |-> <<>>]
    /\ pending = [c \in Peers |-> {}]
    /\ spieces = [c \in Peers |-> <<>>]
    /\ wbuf = [c \in Peers |-> FALSE]
    /\ wire = [c \in Peers |-> [on |-> tap, log |-> <<>>]]
    /\ metrics = [c \in Peers |-> [downloaded |-> 0, uploaded |-> 0]]
    /\ instants = {}
    /\ sock = [c \in Peers |-> "open"]
    /\ budget = events

\* The assembler specification's variables where they are not in use.
NoBuilder ==
    /\ bpb = PieceBuilder_new(0)
    /\ bidx = 0
    /\ bres = NoBuilderResult
    /\ bn = 0

\* No update_snapshot is in progress.
NoUpdate == [conn |-> "", step |-> 0]

\* The choker before any connection is added to it.
NoChoker ==
    /\ connections = <<>>
    /\ optimistic_unchoke = <<>>
    /\ conn = [c \in {} |-> 0]
    /\ snapshot = [c \in {} |-> 0]
    /\ optimistic_unchoke_counter = 0
    /\ phase = "download"
    /\ ticks = 0
    /\ flag = FALSE
    /\ upc = NoUpdate

\* The unit specifications' variables where they are not in use.
NoCall == [required |-> {}, n |-> 0, ret |-> <<>>, calls |-> 0]

NoSelector ==
    /\ history = [id \in {} |-> {}]
    /\ rarity = <<>>
    /\ selected = NoCall

\* A message of the codec: every field of every kind, the unused ones empty.
Codec(t, index, begin, length, v, bv, port) ==
    [t |-> t, index |-> index, begin |-> begin, length |-> length,
     v |-> v, bv |-> bv, port |-> port]
NoMessage == Codec("none", 0, 0, 0, <<>>, <<>>, 0)
NoRecv == [res |-> "none", msg |-> NoMessage, of |-> NoMessage, sends |-> 0]

NoCodec ==
    /\ stream = <<>>
    /\ sent = <<>>
    /\ parsed = NoRecv

NoBitmap ==
    /\ bitmap = <<>>
    /\ bitmap_received = FALSE
    /\ bitmap_threads = [receiver |-> "none", sender |-> "none"]
    /\ bitmap_poisoned = FALSE
    /\ bitmap_haves = {}

\* No clock runs.
NoTimers ==
    timers = [started |-> FALSE, now |-> 0, silent |-> <<>>, waited |-> <<>>,
              seen |-> <<>>, pinged |-> <<>>]

\* No thread takes a lock.
NoLocks ==
    /\ locks = <<>>
    /\ threads = <<>>
    /\ writer_first = FALSE

\* No longer torrent is downloaded.
NoQueue == queue = <<>>

NoPure == NoSelector /\ NoCodec /\ NoBitmap /\ NoTimers /\ NoLocks /\ NoQueue

NoUnits == NoChoker /\ NoPure

InitWith(events, reg) == Established(events, reg, FALSE) /\ NoBuilder /\ NoUnits

Init == InitWith(MaxEvents, TRUE)

\* ---------------------------------------------------------------- commands
Cmd(t, a, b, l) == [t |-> t, a |-> a, b |-> b, l |-> l]
Ping == Cmd("Ping", 0, 0, 0)
Shutdown == Cmd("Shutdown", 0, 0, 0)
ClientHave(index) == Cmd("ClientHave", index, 0, 0)
PeerHave(index) == Cmd("PeerHave", index, 0, 0)
BitFieldReceived == Cmd("BitFieldReceived", 0, 0, 0)
Choke(b) == Cmd("Choke", IF b THEN 1 ELSE 0, 0, 0)
PeerChoke(b) == Cmd("PeerChoke", IF b THEN 1 ELSE 0, 0, 0)
SendChunk(index, begin, length) == Cmd("SendChunk", index, begin, length)

\* The receiving end of c's channel exists until the sender thread has ended.
ChannelOpen(c) == spc[c] \notin {"done", "panicked"}

\* tx.send(cmd) on c's channel: fails when the channel is closed.
Sent(ch, c, cmd) == IF ChannelOpen(c) THEN [ch EXCEPT ![c] = Append(@, cmd)] ELSE ch

\* The model's cap on the channel length.
Room(c) == ChannelOpen(c) => Len(chan[c]) < MaxChan

\* ------------------------------------------------------ piece store, cont.
InProgress(inp, id) == IF id \in DOMAIN inp THEN inp[id] ELSE {}

as_bitvec(dat, include_requested) ==
    {i \in PieceIdx : \/ dat[i].st = "Downloaded"
                      \/ include_requested /\ dat[i].st = "Requested"}

get(dat, index) == IF dat[index].st = "Downloaded" THEN <<dat[index].payload>> ELSE <<>>

check_if_needed(dat, index) == dat[index].st = "Absent"

\* A faulty store that leaves the slot as it was (C10 must tell it apart).
store_data_unmarked(dat, index, piece) == dat

\* store(): the slot, the storing peer's in-progress set and `left`.
store_data(dat, index, piece) == [dat EXCEPT ![index] = Downloaded(piece)]

store_inprogress(inp, id, index) ==
    IF id \in DOMAIN inp THEN [inp EXCEPT ![id] = @ \ {index}] ELSE inp

\* `left -= 1` on a u32.  The model keeps the residue modulo 2^32 that lies in
\* -2^31 .. 2^31 - 1, so the wrapped value 2^32 - 1 is written -1.
store_left(l) == l - 1

\* A faulty write_to_stdout that writes one piece at most (C11 must tell it
\* apart).
write_to_stdout_once(dat, nxt) ==
    IF nxt < num_pieces /\ dat[nxt].st = "Downloaded" THEN nxt + 1 ELSE nxt

\* write_to_stdout(): the value of `next` after the loop.
RECURSIVE write_to_stdout(_, _)
write_to_stdout(dat, nxt) ==
    IF nxt >= num_pieces THEN nxt
    ELSE IF dat[nxt].st = "Downloaded" THEN write_to_stdout(dat, nxt + 1)
    ELSE nxt

\* store(): broadcast of ClientHave(index), dropping the closed channels.
store_handlers(hs) == {c \in hs : ChannelOpen(c)}

\* A faulty broadcast that tells nobody (C9 must tell it apart).
store_broadcast_none(ch, hs, index) == ch

store_broadcast(ch, hs, index) ==
    [c \in Peers |-> IF c \in hs /\ ChannelOpen(c)
                     THEN Append(ch[c], ClientHave(index)) ELSE ch[c]]

\* PieceStore::store, called by the receiver of connection id.
store(id, index, piece) ==
    /\ \A c \in handlers : Room(c)
    /\ data' = store_data(data, index, piece)
    /\ inprogress' = store_inprogress(inprogress, id, index)
    /\ left' = store_left(left)
    /\ handlers' = store_handlers(handlers)
    /\ chan' = store_broadcast(chan, handlers, index)
    /\ next' = write_to_stdout(data', next)
    /\ stdout' = stdout \o [k \in 1 .. (next' - next) |-> next + k - 1]

mark_inprogress(inp, id, index) ==
    [x \in DOMAIN inp \cup {id} |-> IF x = id THEN InProgress(inp, id) \cup {index} ELSE inp[x]]

mark_data(dat, id, index) == [dat EXCEPT ![index] = Requested(id)]

\* A faulty clear_requests that frees every reservation, whoever holds it
\* (C6 must tell it apart).
clear_requests_all(dat, inp, id) ==
    [i \in PieceIdx |-> IF dat[i].st = "Requested" THEN Absent ELSE dat[i]]

clear_requests_data(dat, inp, id) ==
    [i \in PieceIdx |->
        IF i \in InProgress(inp, id) /\ dat[i] = Requested(id) THEN Absent ELSE dat[i]]

clear_requests_inprogress(inp, id) == [x \in DOMAIN inp \ {id} |-> inp[x]]

\* Inorder::request_pieces: the first n indices of required AND available.
\* A faulty in-order selection that forgets to restrict the available
\* pieces to the required ones (C28 must tell them apart).
Inorder_request_pieces_any(required, available, n) ==
    Take(SortedSeq(available), n)

Inorder_request_pieces(required, available, n) ==
    Take(SortedSeq(available \cap required), n)

\* A faulty required set that still counts reserved pieces as required
\* (C5 must tell it apart).
request_required_reserved(dat) == PieceIdx \ as_bitvec(dat, FALSE)

\* The required set request_pieces hands to the selector.
request_required(dat) == PieceIdx \ as_bitvec(dat, TRUE)

\* PieceStore::request_pieces: the selected indices, and the store after
\* marking each of them (ok is FALSE for the Err(()) outcome).
RECURSIVE MarkAll(_, _, _, _)
MarkAll(dat, inp, id, v) ==
    IF v = <<>> THEN [data |-> dat, inprogress |-> inp]
    ELSE MarkAll(mark_data(dat, id, Head(v)), mark_inprogress(inp, id, Head(v)), id, Tail(v))

request_pieces(dat, inp, id, avail, n) ==
    LET v == Inorder_request_pieces(request_required(dat),
                                    avail \cup as_bitvec(dat, FALSE), n)
        m == MarkAll(dat, inp, id, v)
    IN  IF Len(v) = 0
        THEN [ok |-> FALSE, v |-> v, data |-> dat, inprogress |-> inp]
        ELSE [ok |-> TRUE, v |-> v, data |-> m.data, inprogress |-> m.inprogress]


\* ------------------------------------------------------------ live values
\* What update_snapshot copies, as it is right now; a counter that the update
\* in progress has drained already counts with what was drained.
LiveAt(c) ==
    LET k == IF upc.conn = c THEN upc.step ELSE 0
    IN  [availability |-> availability[c],
         state |-> state[c],
         downloaded |-> metrics[c].downloaded
                        + (IF k >= 3 THEN snapshot[c].downloaded ELSE 0),
         uploaded |-> metrics[c].uploaded
                      + (IF k >= 4 THEN snapshot[c].uploaded ELSE 0)]

\* A thread of connection c has acted: while update_snapshot is at work on c
\* the new live values are noted.
Noted(c) ==
    instants' = IF upc.conn = c /\ upc.step \in 1 .. 3
                THEN instants \cup {LiveAt(c)'}
                ELSE instants

\* ----------------------------------------------------------------- receiver
EmptyBuffer == [i \in {} |-> PieceBuilder_new(0)]

\* A message can be read: the receiver is in its loop and the peer sends one.
Reads(c) ==
    /\ rpc[c] = "run"
    /\ sock[c] = "open"
    /\ budget > 0
    /\ Room(c)
    /\ budget' = budget - 1

\* Receiver::start after _start returned an error: Shutdown is sent to the
\* sender (ignored when the channel is closed) and the thread ends.
ReceiverExits(c) ==
    /\ rpc' = [rpc EXCEPT ![c] = "done"]
    /\ rstore' = [rstore EXCEPT ![c] = NoStore]
    /\ piece_buffer' = [piece_buffer EXCEPT ![c] = EmptyBuffer]
    /\ chan' = Sent(chan, c, Shutdown)

\* Handshake::recv at the start of Receiver::_start.  hs is what arrives: a
\* valid handshake, one that is rejected, or nothing (the read is unwrapped
\* and the thread panics without telling the sender).
RecvHandshake(c, hs) ==
    /\ rpc[c] = "handshake"
    /\ Room(c)
    /\ \/ /\ hs = "ok"
          /\ sock[c] = "open"
          /\ rpc' = [rpc EXCEPT ![c] = "run"]
          /\ UNCHANGED <<rstore, piece_buffer, chan>>
       \/ /\ hs = "invalid"
          /\ sock[c] = "open"
          /\ ReceiverExits(c)
       \/ /\ hs = "eof"
          /\ sock[c] # "open"
          /\ rpc' = [rpc EXCEPT ![c] = "panicked"]
          /\ UNCHANGED <<rstore, piece_buffer, chan>>
    /\ UNCHANGED <<storeVars, state, availability, registered, sock,
                   bitfield_received, sendVars, budget, builderVars, metrics, instants, unitVars>>

\* Message::recv fails: a malformed frame, an unknown id, a wrong length.
RecvMalformed(c) ==
    /\ Reads(c)
    /\ ReceiverExits(c)
    /\ UNCHANGED <<storeVars, state, availability, registered, sock,
                   bitfield_received, sendVars, builderVars, metrics, instants, unitVars>>

\* Message::recv fails because the connection is gone (error or end of file).
RecvIoError(c) ==
    /\ rpc[c] = "run"
    /\ sock[c] # "open"
    /\ Room(c)
    /\ ReceiverExits(c)
    /\ UNCHANGED <<storeVars, state, availability, registered, sock,
                   bitfield_received, sendVars, budget, builderVars, metrics, instants, unitVars>>

\* KeepAlive, Cancel and Port: read and ignored.
RecvIgnored(c) ==
    /\ Reads(c)
    /\ UNCHANGED <<storeVars, connVars, recvVars, sendVars, builderVars, metrics, instants, unitVars>>

\* Receiver::choke, for Choke (b = TRUE) and Unchoke (b = FALSE).
RecvChoke(c, b) ==
    /\ Reads(c)
    /\ state' = [state EXCEPT ![c].peer_choked = b]
    /\ IF ChannelOpen(c)
       THEN /\ chan' = Sent(chan, c, PeerChoke(b))
            /\ piece_buffer' = [piece_buffer EXCEPT ![c] = IF b THEN EmptyBuffer ELSE @]
            /\ UNCHANGED <<rpc, rstore>>
       ELSE ReceiverExits(c)
    /\ UNCHANGED <<storeVars, availability, registered, sock,
                   bitfield_received, sendVars, builderVars, metrics, unitVars>>
    /\ Noted(c)

\* Receiver::interest, for Interested and NotInterested.
RecvInterest(c, b) ==
    /\ Reads(c)
    /\ state' = [state EXCEPT ![c].peer_interested = b]
    /\ UNCHANGED <<storeVars, availability, chan, registered, sock,
                   recvVars, sendVars, builderVars, metrics, unitVars>>
    /\ Noted(c)

\* Receiver::have.
RecvHave(c, index) ==
    /\ Reads(c)
    /\ IF index >= num_pieces
       THEN /\ ReceiverExits(c)
            /\ UNCHANGED availability
       ELSE /\ availability' = [availability EXCEPT ![c] = @ \cup {index}]
            /\ IF ChannelOpen(c)
               THEN /\ chan' = Sent(chan, c, PeerHave(index))
                    /\ UNCHANGED <<rpc, rstore, piece_buffer>>
               ELSE ReceiverExits(c)
    /\ UNCHANGED <<storeVars, state, registered, sock,
                   bitfield_received, sendVars, builderVars, metrics, unitVars>>
    /\ Noted(c)

\* Receiver::bitfield.  bv is the received bitmap after truncation to
\* num_pieces bits (a received bitmap has at least eight).
RecvBitField(c, bv) ==
    /\ Reads(c)
    /\ IF ~bitfield_received[c]
       THEN /\ availability' = [availability EXCEPT ![c] = bv]
            /\ IF ChannelOpen(c)
               THEN /\ chan' = Sent(chan, c, BitFieldReceived)
                    /\ bitfield_received' = [bitfield_received EXCEPT ![c] = TRUE]
                    /\ UNCHANGED <<rpc, rstore, piece_buffer>>
               ELSE /\ ReceiverExits(c)
                    /\ UNCHANGED bitfield_received
       ELSE /\ ReceiverExits(c)
            /\ UNCHANGED <<availability, bitfield_received>>
    /\ UNCHANGED <<storeVars, state, registered, sock, sendVars, builderVars, metrics, unitVars>>
    /\ Noted(c)

\* Receiver::request.
RecvRequest(c, index, begin, length) ==
    /\ Reads(c)
    /\ IF ~state[c].client_choked
       THEN IF ChannelOpen(c)
            THEN /\ chan' = Sent(chan, c, SendChunk(index, begin, length))
                 /\ UNCHANGED <<rpc, rstore, piece_buffer>>
            ELSE ReceiverExits(c)
       ELSE UNCHANGED <<chan, rpc, rstore, piece_buffer>>
    /\ UNCHANGED <<storeVars, state, availability, registered, sock,
                   bitfield_received, sendVars, builderVars, metrics, instants, unitVars>>

\* piece_buffer.retain(..) followed by entry(index).or_insert(..).
PurgedBuffer(buf, bv, index) ==
    [k \in ({j \in DOMAIN buf : j \notin bv} \cup {index}) |->
        IF k \in DOMAIN buf THEN buf[k] ELSE PieceBuilder_new(k)]

\* Receiver::piece up to the point where the piece is complete: the bounds
\* check, the ownership check under the store's read lock, the purge and the
\* assembler.  A complete piece is stored by the next action of this thread.
\* Receiver::piece: the chunk completes its piece (pb.add returns Ok(Some)),
\* which is when num_downloaded is incremented.
PieceCompletes(c, index, begin, bytes) ==
    /\ index < num_pieces
    /\ index \notin as_bitvec(data, FALSE)
    /\ LET buf == PurgedBuffer(piece_buffer[c], as_bitvec(data, FALSE), index)
       IN  PieceBuilder_add(buf[index], index, [begin |-> begin, data |-> bytes]).res
               = "Complete"

RecvPiece(c, index, begin, bytes) ==
    /\ Reads(c)
    /\ metrics' = IF PieceCompletes(c, index, begin, bytes)
                  THEN [metrics EXCEPT ![c].downloaded = @ + 1]
                  ELSE metrics
    /\ IF index >= num_pieces \/ index \in as_bitvec(data, FALSE)
       THEN ReceiverExits(c)
       ELSE LET buf == PurgedBuffer(piece_buffer[c], as_bitvec(data, FALSE), index)
                r   == PieceBuilder_add(buf[index], index, [begin |-> begin, data |-> bytes])
            IN  IF r.res = "Complete"
                THEN /\ rpc' = [rpc EXCEPT ![c] = "storing"]
                     /\ rstore' = [rstore EXCEPT ![c] = [index |-> index, payload |-> r.v]]
                     /\ piece_buffer' = [piece_buffer EXCEPT ![c] = [buf EXCEPT ![index] = r.pb]]
                     /\ UNCHANGED chan
                ELSE IF r.res = "Incomplete"
                THEN /\ piece_buffer' = [piece_buffer EXCEPT ![c] = [buf EXCEPT ![index] = r.pb]]
                     /\ UNCHANGED <<rpc, rstore, chan>>
                ELSE ReceiverExits(c)
    /\ UNCHANGED <<storeVars, state, availability, registered, sock,
                   bitfield_received, sendVars, builderVars, unitVars>>
    /\ Noted(c)

\* Receiver::piece, the rest: store.write().store(peer_id, index, payload).
RecvStore(c) ==
    /\ rpc[c] = "storing"
    /\ store(c, rstore[c].index, rstore[c].payload)
    /\ rpc' = [rpc EXCEPT ![c] = "run"]
    /\ rstore' = [rstore EXCEPT ![c] = NoStore]
    /\ UNCHANGED <<state, availability, registered, sock, piece_buffer,
                   bitfield_received, sendVars, budget, builderVars, metrics, instants, unitVars>>


\* ------------------------------------------------------------------- sender
\* What one sender step works on: the connection's flags, the sender's own
\* fields, and the store.  out is ok, err (the step returns a SenderError) or
\* panic (the thread panics).
Ctx(c) ==
    [state |-> state[c], pending |-> pending[c], requests |-> requests[c],
     pieces |-> spieces[c], data |-> data, inprogress |-> inprogress,
     wbuf |-> wbuf[c], wire |-> wire[c], out |-> "ok"]

\* The messages of the peer protocol, and the handshake that precedes them.
Msg(t, index, begin, length, d, bits) ==
    [t |-> t, index |-> index, begin |-> begin, length |-> length,
     data |-> d, bits |-> bits]
Message_Handshake == Msg("Handshake", 0, 0, 0, <<>>, {})
Message_KeepAlive == Msg("KeepAlive", 0, 0, 0, <<>>, {})
Message_Choke == Msg("Choke", 0, 0, 0, <<>>, {})
Message_Unchoke == Msg("Unchoke", 0, 0, 0, <<>>, {})
Message_Interested == Msg("Interested", 0, 0, 0, <<>>, {})
Message_NotInterested == Msg("NotInterested", 0, 0, 0, <<>>, {})
Message_Have(index) == Msg("Have", index, 0, 0, <<>>, {})
Message_BitField(bv) == Msg("BitField", 0, 0, 0, <<>>, bv)
Message_Request(index, begin, length) == Msg("Request", index, begin, length, <<>>, {})
Message_Piece(index, begin, d) == Msg("Piece", index, begin, 0, d, {})

\* Sender::send: the message goes into the BufWriter (every message of the
\* model fits its buffer, so a write error shows at the next flush).
send(x, m) ==
    [x EXCEPT !.wbuf = TRUE,
              !.wire = IF @.on THEN [@ EXCEPT !.log = Append(@, m)] ELSE @]

\* writer.flush(): fails when there is something to write and the connection
\* is gone.
flush(c, x) ==
    IF x.wbuf /\ sock[c] # "open" THEN [x EXCEPT !.out = "err"]
    ELSE [x EXCEPT !.wbuf = FALSE]

\* A faulty n that asks for one piece at a time (C12 must tell it apart).
queue_n_one(x) == 1

\* A faulty n that asks for a full queue whatever is pending (C38 must tell
\* it apart).
queue_n_full(x) == QUEUE_LENGTH

\* The n that queue_pieces asks the store for.
queue_n(x) == QUEUE_LENGTH - Cardinality(x.pending)

\* A faulty queue_pieces that gives up its interest whenever nothing is
\* selectable, requests pending or not (C25 must tell them apart).
queue_pieces_uninterested(c, x) ==
    IF /\ x.state.client_interested
       /\ ~x.state.peer_choked
       /\ Cardinality(x.pending) <= QUEUE_LENGTH \div 2
    THEN LET r == request_pieces(x.data, x.inprogress, c, availability[c], queue_n(x))
         IN  IF r.ok
             THEN [x EXCEPT !.pending = @ \cup Range(r.v),
                            !.requests = @ \o r.v,
                            !.data = r.data,
                            !.inprogress = r.inprogress]
             ELSE send([x EXCEPT !.state.client_interested = FALSE],
                       Message_NotInterested)
    ELSE x

\* Sender::queue_pieces.
queue_pieces(c, x) ==
    IF /\ x.state.client_interested
       /\ ~x.state.peer_choked
       /\ Cardinality(x.pending) <= QUEUE_LENGTH \div 2
    THEN LET r == request_pieces(x.data, x.inprogress, c, availability[c], queue_n(x))
         IN  IF r.ok
             THEN [x EXCEPT !.pending = @ \cup Range(r.v),
                            !.requests = @ \o r.v,
                            !.data = r.data,
                            !.inprogress = r.inprogress]
             ELSE IF x.pending = {}
                  THEN send([x EXCEPT !.state.client_interested = FALSE],
                            Message_NotInterested)
                  ELSE x
    ELSE x

\* Sender::interested.
interested(c, x, b) ==
    IF b THEN queue_pieces(c, send([x EXCEPT !.state.client_interested = TRUE],
                                   Message_Interested))
    ELSE send([x EXCEPT !.state.client_interested = FALSE], Message_NotInterested)

\* Sender::handle_client_have.
handle_client_have(c, x, index) ==
    LET y == IF index \notin availability[c] THEN send(x, Message_Have(index)) ELSE x
    IN  [y EXCEPT !.pending = @ \ {index}]

\* Sender::handle_peer_have.
handle_peer_have(c, x, index) ==
    IF check_if_needed(x.data, index) THEN interested(c, x, TRUE) ELSE x

\* Sender::handle_bitfield.
handle_bitfield(c, x) ==
    IF (PieceIdx \ as_bitvec(x.data, TRUE)) \cap availability[c] # {}
    THEN interested(c, x, TRUE) ELSE x

\* A faulty handle_client_choke that also takes a choked peer to have lost
\* its interest (C39 must tell them apart).
handle_client_choke_reset(c, x, choke) ==
    send([x EXCEPT !.state.client_choked = choke,
                   !.state.peer_interested = IF choke THEN FALSE ELSE @,
                   !.pieces = IF choke THEN <<>> ELSE @],
         IF choke THEN Message_Choke ELSE Message_Unchoke)

\* Sender::handle_client_choke.
handle_client_choke(c, x, choke) ==
    send([x EXCEPT !.state.client_choked = choke,
                   !.pieces = IF choke THEN <<>> ELSE @],
         IF choke THEN Message_Choke ELSE Message_Unchoke)

\* A faulty handle_peer_choke that leaves the store's reservations alone
\* (C24 must tell them apart).
handle_peer_choke_local(c, x, choke) ==
    IF choke THEN [x EXCEPT !.pending = {}, !.requests = <<>>]
    ELSE queue_pieces(c, x)

\* Sender::handle_peer_choke.
handle_peer_choke(c, x, choke) ==
    IF choke
    THEN [x EXCEPT !.pending = {},
                   !.requests = <<>>,
                   !.data = clear_requests_data(x.data, x.inprogress, c),
                   !.inprogress = clear_requests_inprogress(x.inprogress, c)]
    ELSE queue_pieces(c, x)

\* Sender::handle_send_chunk, with the assertions of Piece::new.
handle_send_chunk(c, x, index, begin, length) ==
    IF index >= num_pieces \/ begin + length > piece_size(index)
    THEN [x EXCEPT !.out = "err"]
    ELSE IF get(x.data, index) = <<>>
    THEN [x EXCEPT !.out = "err"]
    ELSE LET piece == get(x.data, index)[1]
         IN  IF ~(begin < Len(piece) /\ begin + length <= Len(piece))
             THEN [x EXCEPT !.out = "panic"]
             ELSE [x EXCEPT !.pieces = Append(@, [index |-> index, begin |-> begin,
                                                  length |-> length, data |-> piece])]

\* Sender::handle.
handle(c, x, cmd) ==
    CASE cmd.t = "Ping" -> x
      [] cmd.t = "Shutdown" -> [x EXCEPT !.out = "err"]
      [] cmd.t = "ClientHave" -> handle_client_have(c, x, cmd.a)
      [] cmd.t = "PeerHave" -> handle_peer_have(c, x, cmd.a)
      [] cmd.t = "BitFieldReceived" -> handle_bitfield(c, x)
      [] cmd.t = "Choke" -> handle_client_choke(c, x, cmd.a = 1)
      [] cmd.t = "PeerChoke" -> handle_peer_choke(c, x, cmd.a = 1)
      [] cmd.t = "SendChunk" -> handle_send_chunk(c, x, cmd.a, cmd.b, cmd.l)

\* Into<Message> for Piece: TRUE when the conversion panics (copy_from_slice
\* into a vector of length zero).
PieceIntoPanics(p) ==
    ~(Len(p.data) = p.length /\ p.begin = 0) /\ p.length # 0

\* Into<Message> for Piece where it does not panic: the whole payload as it
\* is, or the empty vector for a request of length zero.
PieceIntoMessage(p) ==
    Message_Piece(p.index, p.begin,
                  IF Len(p.data) = p.length /\ p.begin = 0 THEN p.data ELSE <<>>)

\* The step's outcome written back.  A thread that panics drops the Sender:
\* its queues are gone and its end of the channel is closed.
Written(c, x, pcOk) ==
    /\ state' = [state EXCEPT ![c] = x.state]
    /\ data' = x.data
    /\ inprogress' = x.inprogress
    /\ spc' = [spc EXCEPT ![c] = IF x.out = "ok" THEN pcOk
                                 ELSE IF x.out = "err" THEN "closing"
                                 ELSE "panicked"]
    /\ pending' = [pending EXCEPT ![c] = IF x.out = "panic" THEN {} ELSE x.pending]
    /\ requests' = [requests EXCEPT ![c] = IF x.out = "panic" THEN <<>> ELSE x.requests]
    /\ spieces' = [spieces EXCEPT ![c] = IF x.out = "panic" THEN <<>> ELSE x.pieces]
    /\ wbuf' = [wbuf EXCEPT ![c] = IF x.out = "panic" THEN FALSE ELSE x.wbuf]
    /\ wire' = [wire EXCEPT ![c] = x.wire]

\* A faulty start that announces the reserved pieces as well (C29 must tell
\* them apart).
SenderStart_reserved(c) ==
    /\ spc[c] = "start"
    /\ Written(c, send(send(Ctx(c), Message_Handshake),
                        Message_BitField(as_bitvec(data, TRUE))), "loop")
    /\ UNCHANGED <<left, handlers, next, stdout, availability, chan, registered,
                   sock, recvVars, budget, builderVars, metrics, unitVars>>
    /\ Noted(c)

\* Sender::_start before the loop: the handshake and the initial BitField.
SenderStart(c) ==
    /\ spc[c] = "start"
    /\ Written(c, send(send(Ctx(c), Message_Handshake),
                        Message_BitField(as_bitvec(data, FALSE))), "loop")
    /\ UNCHANGED <<left, handlers, next, stdout, availability, chan, registered,
                   sock, recvVars, budget, builderVars, metrics, unitVars>>
    /\ Noted(c)

\* handle_commands, or recv_timeout returning a command: the oldest pending
\* command is taken and handled; the loop goes on (or restarts).
SenderCommand(c) ==
    /\ spc[c] \in {"loop", "wait"}
    /\ chan[c] # <<>>
    /\ LET x == handle(c, Ctx(c), Head(chan[c]))
       IN  /\ Written(c, x, "loop")
           /\ chan' = [chan EXCEPT ![c] = IF x.out = "panic" THEN <<>> ELSE Tail(@)]
    /\ UNCHANGED <<left, handlers, next, stdout, availability, registered,
                   sock, recvVars, budget, builderVars, metrics, unitVars>>
    /\ Noted(c)

\* The first half of a pass of the loop once no command is pending: flush,
\* send one queued Request, queue more pieces when few are pending.
RequestsStep(c, x0) ==
    LET x1 == flush(c, x0)
        x2 == IF x1.requests # <<>>
              THEN send([x1 EXCEPT !.requests = Tail(@)],
                        Message_Request(Head(x1.requests), 0,
                                        piece_size(Head(x1.requests))))
              ELSE x1
        x3 == IF Cardinality(x2.pending) <= QUEUE_LENGTH \div 2
              THEN queue_pieces(c, x2) ELSE x2
    IN  IF x1.out # "ok" THEN x1 ELSE x3

\* The second half: flush, send one queued Piece.
PiecesStep(c, x0) ==
    LET x1 == flush(c, x0)
        x2 == IF x1.pieces # <<>>
              THEN IF PieceIntoPanics(Head(x1.pieces))
                   THEN [x1 EXCEPT !.out = "panic"]
                   ELSE send([x1 EXCEPT !.pieces = Tail(@)],
                             PieceIntoMessage(Head(x1.pieces)))
              ELSE x1
    IN  IF x0.out # "ok" THEN x0 ELSE IF x1.out # "ok" THEN x1 ELSE x2

\* One pass of the main loop in which both handle_commands find the channel
\* empty (a command that arrives during the pass is handled by the next
\* one).  With both queues empty afterwards the sender blocks on the channel.
SenderPass(c) ==
    /\ spc[c] = "loop"
    /\ chan[c] = <<>>
    /\ LET x == PiecesStep(c, RequestsStep(c, Ctx(c)))
       IN  Written(c, x, IF x.requests = <<>> /\ x.pieces = <<>> THEN "wait" ELSE "loop")
    /\ UNCHANGED <<left, handlers, next, stdout, availability, chan, registered,
                   sock, recvVars, budget, builderVars, metrics, unitVars>>
    /\ Noted(c)

\* rx.recv_timeout times out: KeepAlive is written and the wait goes on.
SenderKeepAlive(c) ==
    /\ spc[c] = "wait"
    /\ chan[c] = <<>>
    /\ wbuf' = [wbuf EXCEPT ![c] = TRUE]
    /\ wire' = [wire EXCEPT ![c] = send(Ctx(c), Message_KeepAlive).wire]
    /\ UNCHANGED <<storeVars, connVars, recvVars, spc, requests, pending,
                   spieces, budget, builderVars, metrics, instants, unitVars>>

\* The socket after writer.into_inner() and shutdown(Both): into_inner fails
\* when the last flush fails, and then the socket is not shut down.
shutdown_sock(c) ==
    IF wbuf[c] /\ sock[c] # "open" THEN sock[c]
    ELSE IF sock[c] = "open" THEN "shutdown" ELSE sock[c]

\* A faulty shutdown path that keeps the reservations (C7 must tell it apart).
shutdown_data_kept(c) == data

\* The store after the shutdown path's clear_requests.
shutdown_data(c) == clear_requests_data(data, inprogress, c)

\* Sender::start after _start returned: the shutdown path.  The Sender is
\* dropped at the end, which closes the channel.
SenderShutdown(c) ==
    /\ spc[c] = "closing"
    /\ data' = shutdown_data(c)
    /\ inprogress' = clear_requests_inprogress(inprogress, c)
    /\ sock' = [sock EXCEPT ![c] = shutdown_sock(c)]
    /\ spc' = [spc EXCEPT ![c] = "done"]
    /\ chan' = [chan EXCEPT ![c] = <<>>]
    /\ pending' = [pending EXCEPT ![c] = {}]
    /\ requests' = [requests EXCEPT ![c] = <<>>]
    /\ spieces' = [spieces EXCEPT ![c] = <<>>]
    /\ wbuf' = [wbuf EXCEPT ![c] = FALSE]
    /\ UNCHANGED <<left, handlers, next, stdout, state, availability,
                   registered, recvVars, wire, budget, builderVars, metrics, instants, unitVars>>

\* -------------------------------------------------------------- environment
\* Connection::new, its last step: the channel is registered with the store.
Register(c) ==
    /\ ~registered[c]
    /\ registered' = [registered EXCEPT ![c] = TRUE]
    /\ handlers' = handlers \cup {c}
    /\ UNCHANGED <<data, inprogress, left, next, stdout, state, availability,
                   chan, sock, recvVars, sendVars, budget, builderVars, metrics, instants, unitVars>>

\* The choker sends a command on the connection's channel: Connection::choke
\* or the Ping of Connection::is_shutdown.
ChokerCommand(c, cmd) ==
    /\ budget > 0
    /\ ChannelOpen(c)
    /\ Len(chan[c]) < MaxChan
    /\ budget' = budget - 1
    /\ chan' = Sent(chan, c, cmd)
    /\ UNCHANGED <<storeVars, state, availability, registered, sock,
                   recvVars, sendVars, builderVars, metrics, instants, unitVars>>

\* The peer or the network breaks the connection.
PeerReset(c) ==
    /\ budget > 0
    /\ sock[c] = "open"
    /\ budget' = budget - 1
    /\ sock' = [sock EXCEPT ![c] = "broken"]
    /\ UNCHANGED <<storeVars, state, availability, chan, registered,
                   recvVars, sendVars, builderVars, metrics, instants, unitVars>>

\* What a peer sends in the model.  Have: a valid index and one out of range.
HaveInputs == {0, num_pieces}

\* BitField: the first piece alone, and every piece.
BitFieldInputs == {{0}, PieceIdx}

\* Piece: every piece whole with the right bytes, piece 0 whole with a wrong
\* byte, piece 0 in two halves, and an index out of range.
RightBytes(i, b, n) == [k \in 1 .. n |-> PayloadByte(i * PieceLength + b + k - 1)]
WrongBytes(i, b, n) == [k \in 1 .. n |-> 1 - PayloadByte(i * PieceLength + b + k - 1)]
PieceInputs ==
    {<<i, 0, RightBytes(i, 0, piece_size(i))>> : i \in PieceIdx}
    \cup {<<0, 0, WrongBytes(0, 0, piece_size(0))>>}
    \cup {<<0, b, RightBytes(0, b, 1)>> : b \in 0 .. (piece_size(0) - 1)}
    \cup {<<num_pieces, 0, <<1>> >>}

\* Request: a whole piece, a sub-range, an empty range at the end of a piece,
\* a range that is too long, an index out of range.
RequestInputs ==
    {<<i, 0, piece_size(i)>> : i \in PieceIdx}
    \cup {<<0, piece_size(0) - 1, 1>>, <<0, piece_size(0), 0>>,
          <<0, 1, piece_size(0)>>, <<num_pieces, 0, 1>>}

\* Connection::new and the start of the two threads.
Setup(c) ==
    \/ Register(c)
    \/ \E hs \in {"ok", "invalid", "eof"} : RecvHandshake(c, hs)
    \/ SenderStart(c)

\* The receiver on Piece messages and on failures.
Deliver(c) ==
    \/ RecvMalformed(c)
    \/ RecvIoError(c)
    \/ \E p \in PieceInputs : RecvPiece(c, p[1], p[2], p[3])
    \/ RecvStore(c)

\* The receiver on the messages that drive the download.
Download(c) ==
    \/ Deliver(c)
    \/ \E b \in BOOLEAN : RecvChoke(c, b)
    \/ \E i \in HaveInputs : RecvHave(c, i)
    \/ \E bv \in BitFieldInputs : RecvBitField(c, bv)

\* The receiver and the choker on what drives the upload.
Upload(c) ==
    \/ RecvMalformed(c)
    \/ RecvIoError(c)
    \/ RecvIgnored(c)
    \/ \E b \in BOOLEAN : RecvInterest(c, b)
    \/ \E r \in RequestInputs : RecvRequest(c, r[1], r[2], r[3])
    \/ \E cmd \in {Ping, Choke(TRUE), Choke(FALSE)} : ChokerCommand(c, cmd)

Sender(c) ==
    \/ SenderCommand(c)
    \/ SenderPass(c)
    \/ SenderShutdown(c)

\* The download: peers announce, choke and deliver on established, registered
\* connections; any of them may break.
Next ==
    \E c \in Peers :
        \/ Download(c)
        \/ Sender(c)
        \/ PeerReset(c)

Spec == Init /\ [][Next]_vars

\* The deliveries alone, with the registration of the channels still to come
\* (Connection::new registers after it has spawned the threads) and with
\* every sender thread scheduled fairly.
LiveInit == InitWith(MaxEventsLive, FALSE)

LiveNext ==
    \E c \in Peers :
        \/ Register(c)
        \/ Deliver(c)
        \/ Sender(c)
        \/ PeerReset(c)

LiveSpec == LiveInit /\ [][LiveNext]_vars /\ \A c \in Peers : WF_vars(Sender(c))

\* The upload.  It starts where connection p1 has been assigned both pieces,
\* has delivered piece 0 and still owes piece 1 (a state the download
\* reaches); peers then request and the choker commands.
ServeInit ==
    /\ data = [i \in PieceIdx |-> IF i = 0 THEN Downloaded(Payload(0)) ELSE Requested("p1")]
    /\ inprogress = [id \in {"p1"} |-> PieceIdx \ {0}]
    /\ left = num_pieces - 1
    /\ handlers = Peers
    /\ next = 1
    /\ stdout = <<0>>
    /\ state = [c \in Peers |-> IF c = "p1"
                                THEN [State_default EXCEPT !.client_interested = TRUE,
                                                           !.peer_choked = FALSE]
                                ELSE State_default]
    /\ availability = [c \in Peers |-> IF c = "p1" THEN PieceIdx ELSE {}]
    /\ chan = [c \in Peers |-> <<>>]
    /\ registered = [c \in Peers |-> TRUE]
    /\ rpc = [c \in Peers |-> "run"]
    /\ rstore = [c \in Peers |-> NoStore]
    /\ piece_buffer = [c \in Peers |-> IF c = "p1"
                                       THEN [i \in {0} |-> PieceBuilder_new(0)]
                                       ELSE EmptyBuffer]
    /\ bitfield_received = [c \in Peers |-> c = "p1"]
    /\ spc = [c \in Peers |-> "wait"]
    /\ requests = [c \in Peers |-> <<>>]
    /\ pending = [c \in Peers |-> IF c = "p1" THEN PieceIdx \ {0} ELSE {}]
    /\ spieces = [c \in Peers |-> <<>>]
    /\ wbuf = [c \in Peers |-> FALSE]
    /\ wire = [c \in Peers |-> [on |-> TRUE, log |-> <<>>]]
    /\ metrics = [c \in Peers |-> [downloaded |-> IF c = "p1" THEN 1 ELSE 0,
                                    uploaded |-> 0]]
    /\ instants = {}
    /\ sock = [c \in Peers |-> "open"]
    /\ budget = MaxEventsServe
    /\ NoUnits
    /\ NoBuilder

ServeNext == \E c \in Peers : Upload(c) \/ Sender(c)

ServeSpec == ServeInit /\ [][ServeNext]_vars

\* The assembler on its own: a fresh PieceBuilder for some piece, fed chunks
\* until it completes or fails.
ChunkInputs ==
    {[begin |-> b, data |-> d] :
        b \in 0 .. PieceLength,
        d \in UNION {[1 .. n -> Byte] : n \in 1 .. (PieceLength + 1)}}

BuilderInit ==
    /\ Established(0, TRUE, FALSE)
    /\ NoUnits
    /\ bidx \in PieceIdx
    /\ bpb = PieceBuilder_new(bidx)
    /\ bres = NoBuilderResult
    /\ bn = MaxChunks

BuilderAdd(chunk) ==
    /\ bn > 0
    /\ bres.res \in {"None", "Incomplete"}
    /\ bres' = PieceBuilder_add(bpb, bidx, chunk)
    /\ bpb' = bres'.pb
    /\ bn' = bn - 1
    /\ UNCHANGED <<storeVars, connVars, recvVars, sendVars, budget, bidx, metrics, instants, unitVars>>

BuilderNext == \E chunk \in ChunkInputs : BuilderAdd(chunk)

BuilderSpec == BuilderInit /\ [][BuilderNext]_vars

\* ------------------------------------------------------------------ claims
\* C1: in every reachable state each slot is exactly one of Absent,
\* Requested(p) and Downloaded, and `left` is the number of slots that are not
\* Downloaded, whatever the interleaving of the connections' store,
\* request_pieces and clear_requests.
C1_LeftCountsMissing ==
    /\ \A i \in PieceIdx :
          \/ data[i] = Absent
          \/ \E p \in Peers : data[i] = Requested(p)
          \/ data[i] = Downloaded(data[i].payload)
    /\ left = Cardinality({i \in PieceIdx : data[i].st # "Downloaded"})

\* C2: in every reachable state a slot that is Downloaded because a peer
\* delivered it holds a payload whose SHA-1 is the metainfo digest of its index.
C2_DownloadedVerified ==
    \A i \in PieceIdx :
        data[i].st = "Downloaded" => verify_piece(i, data[i].payload)

\* C3: PieceBuilder.add returns Complete(payload) exactly when nothing remains
\* and the payload's SHA-1 is the digest of the piece, Incomplete while bytes
\* are missing, and InvalidPiece when nothing remains and the digest differs;
\* for every chunk sequence, a lone chunk covering the piece included.
C3_CompleteIffVerified ==
    /\ bres.res = "Complete" => verify_piece(bidx, bres.v)
    /\ bres.res = "Incomplete" => bpb.remaining > 0
    /\ bres.res = "InvalidPiece" =>
          /\ bpb.remaining = 0
          /\ ~verify_piece(bidx, Assemble(piece_size(bidx), bpb.chunks))

\* C4: for every peer id p, in every reachable state, the store's in-progress
\* set of p (empty when p has no entry) is exactly the set of indices whose
\* slot is Requested(p).
C4_InProgressExact ==
    \A p \in Peers :
        InProgress(inprogress, p) = {i \in PieceIdx : data[i] = Requested(p)}

\* A connection is live while its sender runs its main loop.
Live(c) == spc[c] \in {"loop", "wait"}

\* Number of times index i stands in the request queue s.
Count(s, i) == Cardinality({k \in 1 .. Len(s) : s[k] = i})

PendingDisjoint ==
    \A c, d \in Peers :
        (c # d /\ Live(c) /\ Live(d)) => pending[c] \cap pending[d] = {}

AssignsOnlyAbsent ==
    \A c \in Peers : \A i \in PieceIdx :
        Count(requests'[c], i) > Count(requests[c], i) =>
            /\ data[i] = Absent
            /\ data'[i] = Requested(c)
            /\ i \in pending'[c]

\* C5: no piece is requested from two peers at once.  Whenever a sender
\* queues a Request for a piece that request_pieces returned, the slot was
\* Absent and is now reserved for this connection; and the pending sets of two
\* distinct live connections are disjoint in every reachable state.
C5_NoDoubleRequest == []PendingDisjoint /\ [][AssignsOnlyAbsent]_vars

\* Both connections hold reservations although their peers offer a common piece.
C5_Witness ==
    /\ Live("p1") /\ Live("p2")
    /\ pending["p1"] # {} /\ pending["p2"] # {}
    /\ availability["p1"] \cap availability["p2"] # {}

\* clear_requests(id) runs in two places of id's sender: the handling of
\* PeerChoke(true) and the shutdown path.
ClearsRequests(id) ==
    \/ SenderShutdown(id)
    \/ chan[id] # <<>> /\ Head(chan[id]) = PeerChoke(TRUE) /\ SenderCommand(id)

Lifecycle ==
    \A i \in PieceIdx :
        /\ data[i].st = "Downloaded" => data'[i].st = "Downloaded"
        /\ \A id \in Peers :
              /\ (data'[i] = Requested(id) /\ data[i] # Requested(id)) =>
                    /\ data[i] = Absent
                    /\ SenderCommand(id) \/ SenderPass(id)
                    /\ i \in pending'[id]
              /\ (data[i] = Requested(id) /\ data'[i] = Absent) => ClearsRequests(id)

\* C6: the life of a slot.  Downloaded is terminal; a slot becomes
\* Requested(id) only from Absent and only by an assignment to id; a
\* Requested(id) slot returns to Absent only by clear_requests(id) of the
\* same id, on a peer choke or in the shutdown path.
C6_Lifecycle == [][Lifecycle]_vars

\* A piece is Downloaded and another one, reserved by a connection, is about
\* to be released by that connection's shutdown path.
C6_Witness ==
    \E c \in Peers : \E i, j \in PieceIdx :
        /\ spc[c] = "closing"
        /\ data[i] = Requested(c)
        /\ data[j].st = "Downloaded"

\* C7: once a connection's sender has run its shutdown path, no slot is
\* Requested by that connection, in this state and in every later one, and
\* the connection's socket carries no more traffic in either direction.
C7_ShutdownReleases ==
    \A c \in Peers :
        spc[c] = "done" =>
            /\ \A i \in PieceIdx : data[i] # Requested(c)
            /\ sock[c] # "open"

\* A sender that was interested and unchoked, hence held every Absent piece
\* of its peer, has run the shutdown path on an open socket; the pieces of
\* its peer are Absent again.
C7_Witness ==
    \E c \in Peers :
        /\ spc[c] = "done"
        /\ sock[c] = "shutdown"
        /\ state[c].client_interested /\ ~state[c].peer_choked
        /\ availability[c] # {}
        /\ \A i \in availability[c] : data[i] = Absent

HandlesClientHave ==
    \A c \in Peers :
        (/\ chan[c] # <<>>
         /\ Head(chan[c]).t = "ClientHave"
         /\ SenderCommand(c)) => get(data, Head(chan[c]).a) # <<>>

\* C10: whenever a sender handles ClientHave(i), slot i of the store is
\* Downloaded already: store.get(i) returns the payload.
C10_HaveAfterDownloaded == [][HandlesClientHave]_vars

\* A piece was stored and every sender, still running, has handled its
\* ClientHave.
C10_Witness ==
    /\ \E i \in PieceIdx : data[i].st = "Downloaded"
    /\ \A c \in Peers : Live(c) /\ chan[c] = <<>>

\* C8: a receiver error makes the receiver send Shutdown and exit, and its
\* sender run the shutdown path; so once the receiver has exited on an error
\* and the sender thread has ended too, no slot is still reserved for the
\* connection.
C8_ErrorRollsBack ==
    \A c \in Peers :
        (rpc[c] = "done" /\ ~ChannelOpen(c)) =>
            \A i \in PieceIdx : data[i] # Requested(c)

\* ClientHave(i) waits in c's channel.
InChan(c, i) == \E k \in 1 .. Len(chan[c]) : chan[c][k] = ClientHave(i)

\* A step in which c's receiver returns from store(c, i, payload).
StoreBroadcasts ==
    \A c \in Peers :
        (rpc[c] = "storing" /\ rpc'[c] = "run") =>
            /\ \A d \in handlers :
                  ChannelOpen(d) => chan'[d] = Append(chan[d], ClientHave(rstore[c].index))
            /\ handlers' = {d \in handlers : ChannelOpen(d)}

\* C9: when store(peer, i, payload) returns, ClientHave(i) is on the channel
\* of every connection that was registered and whose channel is open, and the
\* channels whose send failed have left the broadcast list; every ClientHave(i)
\* on a channel is eventually taken off it by the connection's sender.
C9_HaveBroadcast ==
    /\ [][StoreBroadcasts]_vars
    /\ \A c \in Peers : \A i \in PieceIdx : InChan(c, i) ~> ~InChan(c, i)

\* A store has dropped the channel of a connection whose sender had ended and
\* has put ClientHave on the channel of another one.
C9_Witness ==
    \E c, d \in Peers : \E i \in PieceIdx :
        /\ registered[d] /\ d \notin handlers
        /\ InChan(c, i)

\* The length of the longest prefix of the slot array that is all Downloaded.
PrefixLen(dat) ==
    Cardinality({i \in PieceIdx : \A j \in 0 .. i : dat[j].st = "Downloaded"})

InOrderOutput ==
    /\ stdout = [k \in 1 .. next |-> k - 1]
    /\ next = PrefixLen(data)

OutputGrows ==
    /\ next' >= next
    /\ SubSeq(stdout', 1, Len(stdout)) = stdout

\* C11: the pieces written to stdout are 0, 1, 2, ... in this order, each
\* once and only when it and every piece below it are Downloaded; whenever
\* store has returned, `next` is the length of the longest all-Downloaded
\* prefix of the slots, whatever the order of arrival; what was written is
\* never taken back.
C11_InOrderOutput == []InOrderOutput /\ [][OutputGrows]_vars

\* Piece 1 arrived first and is held back: it is Downloaded, piece 0 is not,
\* nothing is written.
C11_Witness ==
    /\ data[1].st = "Downloaded"
    /\ data[0].st # "Downloaded"
    /\ stdout = <<>>

\* ------------------------------------------------------ request pipelining
\* Fresh, tapped connections; the peers send BitField and Unchoke only.
MaxEventsPipe == 4

PipelineInit == Established(MaxEventsPipe, TRUE, TRUE) /\ NoBuilder /\ NoUnits

PipelineNext ==
    \E c \in Peers :
        \/ \E bv \in BitFieldInputs : RecvBitField(c, bv)
        \/ RecvChoke(c, FALSE)
        \/ Sender(c)

PipelineSpec == PipelineInit /\ [][PipelineNext]_vars

\* The messages of kind t on a connection's wire, in order.
OnWire(c, t) == SelectSeq(wire[c].log, LAMBDA m : m.t = t)

\* The sender of c takes the command cmd off its channel.
Handles(c, cmd) ==
    /\ spc[c] \in {"loop", "wait"}
    /\ chan[c] # <<>>
    /\ Head(chan[c]) = cmd
    /\ spc'[c] = "loop"
    /\ chan'[c] = Tail(chan[c])

\* The pieces the peer of c has that nobody holds or has asked for.
Needed(c) == availability[c] \cap request_required(data)

\* A connection starts choked and uninterested both ways, nothing requested.
FreshConnection ==
    \A c \in Peers :
        /\ state[c] = [client_choked |-> TRUE, client_interested |-> FALSE,
                       peer_choked |-> TRUE, peer_interested |-> FALSE]
        /\ requests[c] = <<>>
        /\ OnWire(c, "Request") = <<>>

\* A Request is written only after the BitField, the Unchoke and an
\* Interested; every Request asks for a whole piece, none twice.
RequestsWhole ==
    \A c \in Peers :
        LET r == OnWire(c, "Request")
        IN  /\ r # <<>> =>
                /\ bitfield_received[c]
                /\ ~state[c].peer_choked
                /\ OnWire(c, "Interested") # <<>>
            /\ \A k \in 1 .. Len(r) :
                /\ r[k].index \in PieceIdx
                /\ r[k].begin = 0
                /\ r[k].length = piece_size(r[k].index)
                /\ \A j \in 1 .. Len(r) : r[j].index = r[k].index => j = k

\* With six pieces on offer the queue takes QUEUE_LENGTH of them.
QueueLengthCaps ==
    \A c \in Peers : \A required \in SUBSET (0 .. QUEUE_LENGTH) :
        pending[c] = {} =>
            Len(Inorder_request_pieces(required, 0 .. QUEUE_LENGTH, queue_n(Ctx(c))))
                = Min({Cardinality(required), QUEUE_LENGTH})

\* Handling the BitField of a peer that has needed pieces.
BecomesInterested ==
    \A c \in Peers :
        Handles(c, BitFieldReceived) /\ Needed(c) # {} =>
            /\ state'[c].client_interested
            /\ OnWire(c, "Interested")' = Append(OnWire(c, "Interested"), Message_Interested)

\* Handling the Unchoke of a peer the client is interested in, nothing asked
\* of it so far.
EnqueuesRequests ==
    \A c \in Peers :
        /\ Handles(c, PeerChoke(FALSE))
        /\ state[c].client_interested
        /\ ~state[c].peer_choked
        /\ pending[c] = {}
        => LET r == SubSeq(requests'[c], Len(requests[c]) + 1, Len(requests'[c]))
           IN  /\ requests'[c] = requests[c] \o r
               /\ Len(r) = Min({Cardinality(Needed(c)), QUEUE_LENGTH})
               /\ Range(r) \subseteq Needed(c)
               /\ Cardinality(Range(r)) = Len(r)
               /\ pending'[c] = Range(r)

ChunkOf(dat, index, begin, length) ==
    SubSeq(get(dat, index)[1], begin + 1, begin + length)

\* C13: a valid SendChunk(i, b, l) on a Downloaded piece is answered by a
\* Piece(i, b, data) carrying the l bytes at offset b, whole pieces and
\* sub-ranges alike, and no sender thread fails on the way: no sender has
\* panicked, and every Piece written carries the bytes of the stored piece.
C13_ServesChunks ==
    \A c \in Peers :
        /\ spc[c] # "panicked"
        /\ \A k \in 1 .. Len(OnWire(c, "Piece")) :
            LET m == OnWire(c, "Piece")[k]
            IN  /\ get(data, m.index) # <<>>
                /\ m.data = ChunkOf(data, m.index, m.begin, Len(m.data))

\* ------------------------------------------------------------------ choker
\* The choker of the main loop over up to NumConns connections.  Connection c
\* downloads Rate(c) in every interval in which its receiver is heard of.
NumConns == 6
MaxTicks == 2
MaxTicksLoop == 4
MaxDeaths == 1

Conns == 1 .. NumConns
Rate(c) == 20 * c

\* Snapshot::default.
Snapshot_default == [state |-> State_default, downloaded |-> 0, uploaded |-> 0]

\* The state of a connection whose peer has unchoked the client and is
\* interested in its pieces.
Eligible == [State_default EXCEPT !.peer_choked = FALSE, !.peer_interested = TRUE]

\* What the peer of a connection may have told its receiver: unchoked and
\* interested, unchoked and not interested, or nothing.
PeerStates ==
    {[State_default EXCEPT !.peer_choked = pc, !.peer_interested = pi] :
        <<pc, pi>> \in {<<FALSE, TRUE>>, <<FALSE, FALSE>>, <<TRUE, FALSE>>}}

\* The sets of connections that start out eligible: all, all but one, two.
EligibleSets(cs) ==
    {S \in SUBSET cs : Cardinality(S) \in {Cardinality(cs), Cardinality(cs) - 1, 2}}

\* The function f over 1 .. n as a sequence.
RECURSIVE Tabulated(_, _)
Tabulated(f, n) == IF n = 0 THEN <<>> ELSE Append(Tabulated(f, n - 1), f[n])

\* Vec::swap_remove (indices from 1).
swap_remove(v, i) ==
    [k \in 1 .. Len(v) - 1 |-> IF k = i THEN v[Len(v)] ELSE v[k]]

\* A faulty pick that leaves the drawn connection in the list (C40 must
\* tell them apart).
pick_optimistic_unchoke_copied(v, i) ==
    IF Len(v) = 0 THEN [connections |-> v, optimistic_unchoke |-> <<>>]
    ELSE [connections |-> v, optimistic_unchoke |-> <<v[i]>>]

\* Choke::pick_optimistic_unchoke, i being the index the generator draws.
pick_optimistic_unchoke(v, i) ==
    IF Len(v) = 0 THEN [connections |-> v, optimistic_unchoke |-> <<>>]
    ELSE [connections |-> swap_remove(v, i), optimistic_unchoke |-> <<v[i]>>]

\* The list pick_optimistic_unchoke draws from in Choke::setup, <<>> when
\* setup does not draw.
setup_pool(conns, slot, optimistic, alive) ==
    LET v == SelectSeq(conns, LAMBDA c : c \in alive)
    IN  IF slot = <<>> \/ slot[1] \notin alive THEN v
        ELSE IF optimistic THEN Append(v, slot[1])
        ELSE <<>>

\* Choke::setup up to the snapshots.
Choke_setup(conns, slot, optimistic, alive, i) ==
    IF slot = <<>> \/ slot[1] \notin alive \/ optimistic
    THEN pick_optimistic_unchoke(setup_pool(conns, slot, optimistic, alive), i)
    ELSE [connections |-> SelectSeq(conns, LAMBDA c : c \in alive),
          optimistic_unchoke |-> slot]

\* Connection::update_snapshot: the copy taken, and the counters drained.
update_snapshot(cn) ==
    [state |-> cn.state, downloaded |-> cn.downloaded, uploaded |-> cn.uploaded]
drained(cn) == [cn EXCEPT !.downloaded = 0, !.uploaded = 0]

\* sort_by_key(|c| Reverse(key)): a stable sort, highest key first.
RECURSIVE sort_by_key_reverse(_, _)
sort_by_key_reverse(v, key) ==
    IF v = <<>> THEN <<>>
    ELSE LET s == sort_by_key_reverse(SubSeq(v, 1, Len(v) - 1), key)
             x == v[Len(v)]
             n == Cardinality({k \in 1 .. Len(s) : key[s[k]] >= key[x]})
         IN  SubSeq(s, 1, n) \o <<x>> \o SubSeq(s, n + 1, Len(s))

\* The first four positions of v whose connection passes the filter.
take4(v, passes) ==
    {k \in 1 .. Len(v) :
        /\ passes[v[k]]
        /\ Cardinality({j \in 1 .. k - 1 : passes[v[j]]}) < 4}

\* Faulty downloaders without the limit of four (C14 must tell them apart).
download_downloaders_all(v, snap) ==
    {k \in 1 .. Len(v) :
        ~snap[v[k]].state.peer_choked /\ snap[v[k]].state.peer_interested}

\* Choke::download: the positions of the downloaders.
download_downloaders(v, snap) ==
    LET passes == Tabulated([c \in DOMAIN snap |->
                     ~snap[c].state.peer_choked /\ snap[c].state.peer_interested],
                     Len(snap))
    IN  take4(v, passes)

\* Choke::download: the positions unchoked besides the downloaders.
download_unchoked(v, snap) ==
    LET d == download_downloaders(v, snap)
        threshold == IF d = {} THEN 0 ELSE Min({snap[v[k]].downloaded : k \in d})
    IN  {k \in 1 .. Len(v) :
            /\ ~snap[v[k]].state.peer_choked
            /\ ~snap[v[k]].state.peer_interested
            /\ (snap[v[k]].downloaded > threshold \/ threshold = 0)}

\* Choke::upload: the positions of the uploaders and of the others unchoked.
upload_uploaders(v, snap) ==
    LET passes == Tabulated([c \in DOMAIN snap |-> snap[c].state.peer_interested],
                            Len(snap))
    IN  take4(v, passes)
upload_unchoked(v, snap) ==
    LET d == upload_uploaders(v, snap)
        threshold == IF d = {} THEN 0 ELSE Min({snap[v[k]].uploaded : k \in d})
    IN  {k \in 1 .. Len(v) :
            /\ ~snap[v[k]].state.peer_interested
            /\ (snap[v[k]].uploaded > threshold \/ threshold = 0)}

\* Faulty commands: Choke(false) to every connection that should be
\* unchoked, whatever its snapshot says (C23 must tell them apart).
Choke_command_always(v, slot, snap, keep, c) ==
    IF (\E k \in keep : v[k] = c) \/ slot = <<c>> THEN "unchoke"
    ELSE IF c \in Range(v) /\ ~snap[c].state.client_choked THEN "choke"
    ELSE "none"

\* The command the loop over the connections and the final match send to
\* connection c: "unchoke", "choke" or "none".
Choke_command(v, slot, snap, keep, c) ==
    IF \E k \in keep : v[k] = c
    THEN IF snap[c].state.client_choked THEN "unchoke" ELSE "none"
    ELSE IF c \in Range(v)
    THEN IF ~snap[c].state.client_choked THEN "choke" ELSE "none"
    ELSE IF slot = <<c>> /\ snap[c].state.client_choked THEN "unchoke"
    ELSE "none"

\* The main loop with the connections cs added; n is the number of choker
\* ticks looked at in each phase, sets the choice of eligible connections.
ChokeInitWith(n, cs, sets) ==
    /\ Established(n, TRUE, FALSE)
    /\ NoBuilder
    /\ connections = Tabulated([k \in cs |-> k], Cardinality(cs))
    /\ \E eligible \in sets : \E other \in PeerStates :
        conn = [c \in cs |->
                  [state |-> IF c \in eligible THEN Eligible ELSE other,
                   downloaded |-> 0, uploaded |-> 0,
                   alive |-> TRUE, cmd |-> "none"]]
    /\ snapshot = [c \in cs |-> Snapshot_default]
    /\ optimistic_unchoke = <<>>
    /\ optimistic_unchoke_counter = 0
    /\ phase = "download"
    /\ ticks = 0
    /\ flag = FALSE
    /\ upc = NoUpdate
    /\ NoPure

\* One pass of the download loop or of the seed loop of the main thread:
\* Choke::download or Choke::upload, i being the index the generator draws.
ChokerTick(i) ==
    LET optimistic == optimistic_unchoke_counter = 0
        alive == {c \in DOMAIN conn : conn[c].alive}
        pool == setup_pool(connections, optimistic_unchoke, optimistic, alive)
    IN  /\ ticks < budget
        /\ IF pool = <<>> THEN i = 0 ELSE i \in 1 .. Len(pool)
        /\ \E s \in {Choke_setup(connections, optimistic_unchoke, optimistic, alive, i)} :
           \E members \in {Range(s.connections) \cup Range(s.optimistic_unchoke)} :
           \E snap \in {Tabulated([c \in DOMAIN conn |->
                            IF c \in members THEN update_snapshot(conn[c])
                            ELSE snapshot[c]], Len(conn))} :
           \E key \in {Tabulated([c \in DOMAIN conn |->
                            IF phase = "download" THEN snap[c].downloaded
                            ELSE snap[c].uploaded], Len(conn))} :
           \E v \in {sort_by_key_reverse(s.connections, key)} :
           \E keep \in {IF phase = "download"
                         THEN download_downloaders(v, snap) \cup download_unchoked(v, snap)
                         ELSE upload_uploaders(v, snap) \cup upload_unchoked(v, snap)} :
              /\ connections' = v
              /\ optimistic_unchoke' = s.optimistic_unchoke
              /\ snapshot' = snap
              /\ conn' = [c \in DOMAIN conn |->
                   LET t == Choke_command(v, s.optimistic_unchoke, snap, keep, c)
                       d == IF c \in members THEN drained(conn[c]) ELSE conn[c]
                   IN  [d EXCEPT !.cmd = IF t # "none" /\ d.alive THEN t ELSE @]]
        /\ optimistic_unchoke_counter' = IF optimistic THEN 3 ELSE optimistic_unchoke_counter
        /\ flag' = optimistic
        /\ ticks' = ticks + 1
        /\ UNCHANGED <<phase, storeVars, connVars, recvVars, sendVars, budget, builderVars, metrics, instants, upc, pureVars>>

\* The receivers count what arrived in the interval.
ReceiversDownload ==
    /\ phase = "download"
    /\ \A c \in DOMAIN conn : conn[c].downloaded = 0
    /\ conn' = [c \in DOMAIN conn |->
                  [conn[c] EXCEPT !.downloaded = IF conn[c].alive THEN Rate(c) ELSE @]]
    /\ UNCHANGED <<connections, optimistic_unchoke, snapshot,
                   optimistic_unchoke_counter, phase, ticks, flag,
                   storeVars, connVars, recvVars, sendVars, budget, builderVars, metrics, instants, upc, pureVars>>

\* The senders handle the Choke commands queued for them.
SendersHandle ==
    /\ \E c \in DOMAIN conn : conn[c].cmd # "none"
    /\ conn' = [c \in DOMAIN conn |->
                  IF conn[c].cmd = "none" THEN conn[c]
                  ELSE [conn[c] EXCEPT !.state.client_choked = (conn[c].cmd = "choke"),
                                       !.cmd = "none"]]
    /\ UNCHANGED <<connections, optimistic_unchoke, snapshot,
                   optimistic_unchoke_counter, phase, ticks, flag,
                   storeVars, connVars, recvVars, sendVars, budget, builderVars, metrics, instants, upc, pureVars>>

\* The threads of a connection end: Ping can no longer be sent to it.
ConnectionDies(c) ==
    /\ conn[c].alive
    /\ Cardinality({d \in DOMAIN conn : ~conn[d].alive}) < MaxDeaths
    /\ conn' = [conn EXCEPT ![c].alive = FALSE, ![c].cmd = "none"]
    /\ UNCHANGED <<connections, optimistic_unchoke, snapshot,
                   optimistic_unchoke_counter, phase, ticks, flag,
                   storeVars, connVars, recvVars, sendVars, budget, builderVars, metrics, instants, upc, pureVars>>

\* store.left reaches 0: the download loop ends and the seed loop starts.
SeedLoopStarts ==
    /\ phase = "download"
    /\ phase' = "seed"
    /\ optimistic_unchoke_counter' = 0
    /\ ticks' = 0
    /\ UNCHANGED <<connections, optimistic_unchoke, snapshot, conn, flag,
                   storeVars, connVars, recvVars, sendVars, budget, builderVars, metrics, instants, upc, pureVars>>

ChokeNext ==
    \/ \E i \in 0 .. NumConns : ChokerTick(i)
    \/ ReceiversDownload
    \/ SendersHandle
    \/ SeedLoopStarts

ChokeInit ==
    \E n \in {NumConns - 1, NumConns} :
        ChokeInitWith(MaxTicks, 1 .. n, EligibleSets(1 .. n))

ChokeSpec == ChokeInit /\ [][ChokeNext]_vars

\* The same loop watched for longer over fewer connections, all of them
\* eligible, any of which may die.
NumConnsLoop == 3

LoopInit == ChokeInitWith(MaxTicksLoop, 1 .. NumConnsLoop, {1 .. NumConnsLoop})

LoopNext ==
    \/ ChokeNext
    \/ \E c \in DOMAIN conn : ConnectionDies(c)

LoopSpec == LoopInit /\ [][LoopNext]_vars

\* A download tick of the choker.
DownloadTick == phase = "download" /\ ticks' = ticks + 1

\* The eligible connections of the active list after a tick: unchoked by
\* their peer and interested, by their snapshots.
EligibleActive ==
    {c \in Range(connections') :
        ~snapshot'[c].state.peer_choked /\ snapshot'[c].state.peer_interested}

\* The preferred set: an eligible connection belongs to it when fewer than
\* four eligible ones have a higher rate (or the same rate and an earlier
\* place in the list).
Preferred ==
    LET pos(c) == CHOOSE k \in 1 .. Len(connections') : connections'[k] = c
        ahead(c) == {d \in EligibleActive :
                        \/ snapshot'[d].downloaded > snapshot'[c].downloaded
                        \/ /\ snapshot'[d].downloaded = snapshot'[c].downloaded
                           /\ pos(d) < pos(c)}
    IN  {c \in EligibleActive : Cardinality(ahead(c)) < 4}

\* The tick tells c to unchoke where its snapshot says choked, and otherwise
\* nothing.
ToldUnchoke(c) ==
    conn'[c].cmd = IF snapshot'[c].state.client_choked THEN "unchoke" ELSE conn[c].cmd

\* The tick tells c to choke where its snapshot says unchoked, and otherwise
\* nothing.
ToldChoke(c) ==
    conn'[c].cmd = IF ~snapshot'[c].state.client_choked THEN "choke" ELSE conn[c].cmd

PreferredUnchoked ==
    DownloadTick =>
        /\ Cardinality(Preferred) = Min({4, Cardinality(EligibleActive)})
        /\ \A c \in Preferred : \A d \in EligibleActive \ Preferred :
              snapshot'[c].downloaded >= snapshot'[d].downloaded
        /\ \A c \in Preferred \cup Range(optimistic_unchoke') : ToldUnchoke(c)
        /\ \A c \in EligibleActive \ Preferred : ToldChoke(c)

\* c is unchoked, or about to be.
Unchoked(c) ==
    \/ conn[c].cmd = "unchoke"
    \/ conn[c].cmd = "none" /\ ~conn[c].state.client_choked

\* All the choker's connections are eligible and the last tick, the first
\* one, sampled the rate of each.
FirstTickAllEligible ==
    /\ phase = "download"
    /\ ticks = 1
    /\ \A c \in DOMAIN conn :
        /\ ~conn[c].state.peer_choked
        /\ conn[c].state.peer_interested
        /\ snapshot[c].downloaded = Rate(c)

\* C14 as stated: five live eligible connections with the rates 100, 80, 60,
\* 40, 20; after one tick the four with the highest rates are unchoked and
\* the one with the lowest rate is choked.
C14_LowestChoked ==
    FirstTickAllEligible /\ Len(conn) = 5 =>
        /\ \A c \in 2 .. 5 : Unchoked(c)
        /\ ~Unchoked(1)

\* C14 amended: in a download tick the preferred set is the at most four
\* highest-rate eligible connections of the active list, which does not hold
\* the optimistic connection; the preferred and the optimistic connection
\* are unchoked, the other eligible ones choked.
C14_PreferredUnchoked == [][PreferredUnchoked]_vars

C14_Witness ==
    /\ FirstTickAllEligible
    /\ Len(conn) = NumConns
    /\ \E c \in DOMAIN conn :
        /\ ~Unchoked(c)
        /\ optimistic_unchoke # <<c>>
        /\ \A d \in DOMAIN conn \ {c} :
            /\ Unchoked(d)
            /\ Rate(d) > Rate(c) \/ optimistic_unchoke = <<d>>

\* A tick passes optimistic_unchoke = true exactly when the number of ticks
\* of its phase before it is a multiple of three.
EveryThirdTick == ticks' = ticks + 1 => (flag' <=> ticks % 3 = 0)

\* C15: on every third choker tick the main loop passes optimistic_unchoke =
\* true (and the choker rotates the optimistic connection), in the download
\* phase and in the seed phase alike.
C15_EveryThirdTick == [][EveryThirdTick]_vars

\* --------------------------------------------------------- update_snapshot
\* The choker thread's Connection::update_snapshot on a connection whose
\* receiver and sender run: four copies, each under its own lock.
MaxEventsSnap == 2

\* Snapshot::default (the default BitVec is empty).
Snapshot_empty ==
    [availability |-> {}, state |-> State_default, downloaded |-> 0, uploaded |-> 0]

SnapInit ==
    /\ Established(MaxEventsSnap, TRUE, FALSE)
    /\ NoBuilder
    /\ connections = <<>>
    /\ optimistic_unchoke = <<>>
    /\ conn = [c \in {} |-> 0]
    /\ snapshot = [c \in Peers |-> Snapshot_empty]
    /\ optimistic_unchoke_counter = 0
    /\ phase = "download"
    /\ ticks = 0
    /\ flag = FALSE
    /\ upc = NoUpdate
    /\ NoPure

\* What an update_snapshot step leaves alone.
SnapshotFrame ==
    UNCHANGED <<storeVars, connVars, recvVars, sendVars, budget, builderVars,
                connections, optimistic_unchoke, conn, optimistic_unchoke_counter,
                phase, ticks, flag, pureVars>>

\* self.snapshot.availability = availability.lock().clone(): the first lock
\* of the call.
SnapshotAvailability(c) ==
    /\ upc = NoUpdate
    /\ upc' = [conn |-> c, step |-> 1]
    /\ snapshot' = [snapshot EXCEPT ![c].availability = availability[c]]
    /\ instants' = {LiveAt(c)}
    /\ UNCHANGED metrics
    /\ SnapshotFrame

\* self.snapshot.state = state.read().clone().
SnapshotState(c) ==
    /\ upc = [conn |-> c, step |-> 1]
    /\ upc' = [conn |-> c, step |-> 2]
    /\ snapshot' = [snapshot EXCEPT ![c].state = state[c]]
    /\ UNCHANGED <<metrics, instants>>
    /\ SnapshotFrame

\* self.snapshot.downloaded = the counter, which is set to 0.
SnapshotDownloaded(c) ==
    /\ upc = [conn |-> c, step |-> 2]
    /\ upc' = [conn |-> c, step |-> 3]
    /\ snapshot' = [snapshot EXCEPT ![c].downloaded = metrics[c].downloaded]
    /\ metrics' = [metrics EXCEPT ![c].downloaded = 0]
    /\ UNCHANGED instants
    /\ SnapshotFrame

\* self.snapshot.uploaded = the counter, which is set to 0; the call returns.
SnapshotUploaded(c) ==
    /\ upc = [conn |-> c, step |-> 3]
    /\ upc' = [conn |-> c, step |-> 4]
    /\ snapshot' = [snapshot EXCEPT ![c].uploaded = metrics[c].uploaded]
    /\ metrics' = [metrics EXCEPT ![c].uploaded = 0]
    /\ UNCHANGED instants
    /\ SnapshotFrame

SnapNext ==
    \E c \in Peers :
        \/ Download(c)
        \/ Sender(c)
        \/ PeerReset(c)
        \/ SnapshotAvailability(c)
        \/ SnapshotState(c)
        \/ SnapshotDownloaded(c)
        \/ SnapshotUploaded(c)

SnapSpec == SnapInit /\ [][SnapNext]_vars

\* C16: the snapshot update_snapshot leaves behind equals the connection's
\* live values at one instant of the call, whatever the connection's threads
\* do meanwhile.
C16_SnapshotAtomic ==
    upc.step = 4 => snapshot[upc.conn] \in instants

\* ------------------------------------------------ rarest-first selection
\* Rare::request_pieces alone: the selector is called with any id, required
\* set, availability and n; the shuffle is any order of the shuffled part.
NumPiecesRare == 3
MaxCalls == 2
MaxN == 3
RarePieces == 0 .. NumPiecesRare - 1
RareIds == {"a", "b"}

\* Rare::update_rarity: the vector is created at the first call.
update_rarity(rar, bv) ==
    LET r0 == IF Len(rar) = 0 THEN [k \in 1 .. NumPiecesRare |-> 0] ELSE rar
    IN  [k \in 1 .. Len(r0) |-> IF (k - 1) \in bv THEN r0[k] + 1 ELSE r0[k]]

\* v.sort_by_key(|i| self.rarity[i]): a stable sort, lowest key first.
RECURSIVE sort_by_key(_, _)
sort_by_key(v, rar) ==
    IF v = <<>> THEN <<>>
    ELSE LET s == sort_by_key(SubSeq(v, 1, Len(v) - 1), rar)
             x == v[Len(v)]
             n == Cardinality({k \in 1 .. Len(s) : rar[s[k] + 1] <= rar[x + 1]})
         IN  SubSeq(s, 1, n) \o <<x>> \o SubSeq(s, n + 1, Len(s))

\* Faulty boundary: the rarity of the first piece (C18 must tell them apart).
max_rarity_first(v, n, rar) == rar[v[1] + 1]

\* self.rarity[v[min(n, v.len() - 1)]]
max_rarity(v, n, rar) == rar[v[(IF n < Len(v) - 1 THEN n ELSE Len(v) - 1) + 1] + 1]

\* v.iter().take_while(|i| self.rarity[i] < max_rarity)
take_while(v, rar, bound) ==
    SubSeq(v, 1, Cardinality({k \in 1 .. Len(v) :
                                \A j \in 1 .. k : rar[v[j] + 1] < bound}))

\* v.shuffle(&mut rng): every order of v is a possible outcome.
shuffle(v) == {s \in [1 .. Len(v) -> Range(v)] : Range(s) = Range(v)}

\* Vec::truncate
truncate(v, n) == Take(v, n)

\* Rare::request_pieces(id, State {required, available}, n)
RareRequest(id, required, available, n) ==
    /\ selected.calls < MaxCalls
    /\ \E bv \in {IF id \in DOMAIN history THEN history[id] \ available
                  ELSE available} :
       \E rar \in {update_rarity(rarity, bv)} :
       \E v \in {sort_by_key(SortedSeq(required), rar)} :
        /\ history' = [i \in DOMAIN history \cup {id} |->
                         IF i = id THEN available ELSE history[i]]
        /\ rarity' = rar
        /\ IF Len(v) = 0
           THEN selected' = [required |-> required, n |-> n, ret |-> <<>>,
                             calls |-> selected.calls + 1]
           ELSE \E ret \in {take_while(v, rar, max_rarity(v, n, rar))} :
                \E rest \in shuffle(SubSeq(v, Len(ret) + 1, Len(v))) :
                    selected' = [required |-> required, n |-> n,
                                 ret |-> ret \o truncate(rest, n - Len(ret)),
                                 calls |-> selected.calls + 1]
    /\ UNCHANGED <<storeVars, connVars, recvVars, sendVars, budget, builderVars,
                   metrics, instants, chokeVars, codecVars, mapVars, timeVars, lockVars, queueVars>>

RareInit ==
    /\ Established(0, TRUE, FALSE)
    /\ NoBuilder
    /\ NoUnits

RareNext ==
    \E id \in RareIds : \E required \in SUBSET RarePieces :
    \E available \in SUBSET RarePieces : \E n \in 0 .. MaxN :
        RareRequest(id, required, available, n)

RareSpec == RareInit /\ [][RareNext]_vars

\* The rarity count of piece i after the last call.
RarityOf(i) == rarity[i + 1]

Returned == Range(selected.ret)
LeftOut == selected.required \ Returned

\* The result holds min(n, number of required) distinct required indices.
ReturnsEnough ==
    /\ Len(selected.ret) =
         IF selected.n < Cardinality(selected.required)
         THEN selected.n ELSE Cardinality(selected.required)
    /\ Cardinality(Returned) = Len(selected.ret)
    /\ Returned \subseteq selected.required

\* No returned piece has a higher rarity count than a required piece that
\* was left out.
RarestReturned ==
    \A i \in Returned : \A j \in LeftOut : RarityOf(i) <= RarityOf(j)

\* The result is in ascending rarity order.
Ascending ==
    \A k \in 1 .. Len(selected.ret) - 1 :
        RarityOf(selected.ret[k]) <= RarityOf(selected.ret[k + 1])

\* C17: rarest-first request_pieces(n) returns min(n, number of required
\* pieces) distinct required indices, the pieces strictly rarer than the
\* boundary first and then only pieces tied at the boundary, so that no
\* returned piece has a higher rarity count than a required piece left out.
C17_RarestFirst ==
    selected.calls > 0 => ReturnsEnough /\ RarestReturned

\* The required pieces of the last call have pairwise distinct rarity.
DistinctRarity ==
    \A i \in selected.required : \A j \in selected.required :
        i # j => RarityOf(i) # RarityOf(j)

\* C18: when the required pieces have pairwise distinct rarity,
\* request_pieces(n) returns exactly the min(n, number of required)
\* lowest-rarity required pieces in ascending rarity order.
C18_DistinctRarity ==
    selected.calls > 0 /\ DistinctRarity =>
        ReturnsEnough /\ Ascending /\ RarestReturned

\* One peer reported {0,1}, another {0}: the rarity of pieces 0 and 1 is
\* 2 and 1, and n = 1 returned [1].
C18_Witness ==
    /\ DOMAIN history = RareIds
    /\ history["a"] = {0, 1}
    /\ history["b"] = {0}
    /\ RarityOf(0) = 2
    /\ RarityOf(1) = 1
    /\ selected.required = {0, 1}
    /\ selected.n = 1
    /\ selected.ret = <<1>>

\* ------------------------------------------------------- message codec
\* Message::send and Message::recv alone: messages are written to a byte
\* stream and parsed back from it, in order.
MaxSends == 3

\* A message of each kind.
Simple(t) == Codec(t, 0, 0, 0, <<>>, <<>>, 0)
Triple(t, index, begin, length) == Codec(t, index, begin, length, <<>>, <<>>, 0)
Field(bv) == Codec("BitField", 0, 0, 0, <<>>, bv, 0)
Block(index, begin, v) == Codec("Piece", index, begin, 0, v, <<>>, 0)

Drop(s, n) == SubSeq(s, n + 1, Len(s))

\* BitVec::as_slice: whole bytes, the first bit the most significant, the
\* bits after the last one zero (as bitvec! and collect() build them).
BitAt(bv, i) == IF i <= Len(bv) THEN bv[i] ELSE 0
as_slice(bv) ==
    [k \in 1 .. (Len(bv) + 7) \div 8 |->
        BitAt(bv, 8 * k - 7) * 128 + BitAt(bv, 8 * k - 6) * 64
        + BitAt(bv, 8 * k - 5) * 32 + BitAt(bv, 8 * k - 4) * 16
        + BitAt(bv, 8 * k - 3) * 8 + BitAt(bv, 8 * k - 2) * 4
        + BitAt(bv, 8 * k - 1) * 2 + BitAt(bv, 8 * k)]

\* bitvec![0; 8 * n] filled by read_exact(bv.as_mut_slice()).
from_slice(bytes) ==
    [i \in 1 .. 8 * Len(bytes) |->
        (bytes[(i - 1) \div 8 + 1] \div (2 ^ (7 - ((i - 1) % 8)))) % 2]

\* Faulty write_u32: little endian (C19 must tell them apart).
write_u32_LE(x) ==
    <<x % 256, (x \div 256) % 256, (x \div 65536) % 256, (x \div 16777216) % 256>>

\* write_u32::<BE>, write_u16::<BE>, read_u32::<BE>, read_u16::<BE>
write_u32(x) ==
    <<(x \div 16777216) % 256, (x \div 65536) % 256, (x \div 256) % 256, x % 256>>
write_u16(x) == <<(x \div 256) % 256, x % 256>>
read_u32(s) == s[1] * 16777216 + s[2] * 65536 + s[3] * 256 + s[4]
read_u16(s) == s[1] * 256 + s[2]

Message_len(m) ==
    CASE m.t = "KeepAlive" -> 0
      [] m.t \in {"Choke", "Unchoke", "Interested", "NotInterested"} -> 1
      [] m.t = "Port" -> 3
      [] m.t = "Have" -> 5
      [] m.t \in {"Request", "Cancel"} -> 13
      [] m.t = "BitField" -> Len(as_slice(m.bv)) + 1
      [] m.t = "Piece" -> 9 + Len(m.v)

Message_id(m) ==
    CASE m.t = "Choke" -> 0
      [] m.t = "Unchoke" -> 1
      [] m.t = "Interested" -> 2
      [] m.t = "NotInterested" -> 3
      [] m.t = "Have" -> 4
      [] m.t = "BitField" -> 5
      [] m.t = "Request" -> 6
      [] m.t = "Piece" -> 7
      [] m.t = "Cancel" -> 8
      [] m.t = "Port" -> 9

send_preamble(m) ==
    IF m.t = "KeepAlive" THEN write_u32(0)
    ELSE write_u32(Message_len(m)) \o <<Message_id(m)>>

\* Message::send into a Vec: the bytes it writes.
Message_send(m) ==
    send_preamble(m) \o
    CASE m.t \in {"KeepAlive", "Choke", "Unchoke", "Interested", "NotInterested"}
           -> <<>>
      [] m.t = "Have" -> write_u32(m.index)
      [] m.t \in {"Request", "Cancel"}
           -> write_u32(m.index) \o write_u32(m.begin) \o write_u32(m.length)
      [] m.t = "BitField" -> as_slice(m.bv)
      [] m.t = "Piece" -> write_u32(m.index) \o write_u32(m.begin) \o m.v
      [] m.t = "Port" -> write_u16(m.port)

\* The outcomes of Message::recv: the value or the error, and the bytes of
\* the reader it has not consumed.
Ok(m, rest) == [res |-> "Ok", msg |-> m, rest |-> rest]
Err(e, rest) == [res |-> e, msg |-> NoMessage, rest |-> rest]

\* ret.validate(length)?; Ok(ret)
validate(m, length, rest) ==
    IF Message_len(m) = length THEN Ok(m, rest) ELSE Err("WrongLength", rest)

\* The arm of the match for one id, s being the reader after the id.
recv_body(id, length, s) ==
    CASE id = 0 -> validate(Simple("Choke"), length, s)
      [] id = 1 -> validate(Simple("Unchoke"), length, s)
      [] id = 2 -> validate(Simple("Interested"), length, s)
      [] id = 3 -> validate(Simple("NotInterested"), length, s)
      [] id = 4 ->
           IF Len(s) < 4 THEN Err("IO", <<>>)
           ELSE validate(Triple("Have", read_u32(s), 0, 0), length, Drop(s, 4))
      [] id = 5 ->
           IF length < 2 THEN Err("SmallLength", s)
           ELSE IF Len(s) < length - 1 THEN Err("IO", <<>>)
           ELSE validate(Field(from_slice(Take(s, length - 1))),
                         length, Drop(s, length - 1))
      [] id \in {6, 8} ->
           IF Len(s) < 12 THEN Err("IO", <<>>)
           ELSE validate(Triple(IF id = 6 THEN "Request" ELSE "Cancel",
                                read_u32(s), read_u32(Drop(s, 4)),
                                read_u32(Drop(s, 8))),
                         length, Drop(s, 12))
      [] id = 7 ->
           IF Len(s) < 8 THEN Err("IO", <<>>)
           ELSE IF length < 10 THEN Err("SmallLength", Drop(s, 8))
           ELSE validate(Block(read_u32(s), read_u32(Drop(s, 4)),
                                     Take(Drop(s, 8), length - 9)),
                         length, Drop(Drop(s, 8), length - 9))
      [] id = 9 ->
           IF Len(s) < 2 THEN Err("IO", <<>>)
           ELSE validate(Codec("Port", 0, 0, 0, <<>>, <<>>, read_u16(s)), length, Drop(s, 2))
      [] OTHER -> Err("Invalid", s)

\* Message::recv from a reader holding s.
Message_recv(s) ==
    IF Len(s) < 4 THEN Err("IO", <<>>)
    ELSE IF read_u32(s) = 0 THEN Ok(Simple("KeepAlive"), Drop(s, 4))
    ELSE IF Len(s) < 5 THEN Err("IO", <<>>)
    ELSE recv_body(s[5], read_u32(s), Drop(s, 5))

\* The values the messages are drawn from.
U32Inputs == {0, 2, 258, 16909060}
BitVecInputs ==
    {<<>>, <<0, 0, 0, 1>>, <<1, 0, 0, 0, 0, 0, 0, 1>>,
     <<0, 1, 0, 0, 0, 0, 0, 0, 1>>}
BlockInputs == {<<>>, <<7>>, <<2, 8, 5>>}
CodecInputs ==
    {Simple("KeepAlive"), Simple("Choke"), Simple("Unchoke"), Simple("Interested"),
     Simple("NotInterested")}
    \cup {Triple("Have", i, 0, 0) : i \in U32Inputs}
    \cup {Field(bv) : bv \in BitVecInputs}
    \cup {Triple("Request", 2, b, 3) : b \in U32Inputs}
    \cup {Triple("Cancel", i, 0, 258) : i \in U32Inputs}
    \cup {Block(2, b, v) : b \in {0, 258}, v \in BlockInputs}
    \cup {Codec("Port", 0, 0, 0, <<>>, <<>>, p) : p \in {0, 1000, 65535}}

\* m.send(&mut stream)
CodecSend(m) ==
    /\ parsed.sends < MaxSends
    /\ stream' = stream \o Message_send(m)
    /\ sent' = Append(sent, m)
    /\ parsed' = [parsed EXCEPT !.sends = @ + 1]
    /\ UNCHANGED <<storeVars, connVars, recvVars, sendVars, budget, builderVars,
                   metrics, instants, chokeVars, selVars, mapVars, timeVars, lockVars, queueVars>>

\* Message::recv(&mut stream)
CodecRecv ==
    /\ sent # <<>>
    /\ \E r \in {Message_recv(stream)} :
        /\ stream' = r.rest
        /\ parsed' = [res |-> r.res, msg |-> r.msg, of |-> Head(sent),
                      sends |-> parsed.sends]
    /\ sent' = Tail(sent)
    /\ UNCHANGED <<storeVars, connVars, recvVars, sendVars, budget, builderVars,
                   metrics, instants, chokeVars, selVars, mapVars, timeVars, lockVars, queueVars>>

CodecInit ==
    /\ Established(0, TRUE, FALSE)
    /\ NoBuilder
    /\ NoUnits

CodecNext ==
    \/ \E m \in CodecInputs : CodecSend(m)
    \/ CodecRecv

CodecSpec == CodecInit /\ [][CodecNext]_vars

\* m with its BitField padded with zero bits to a whole number of bytes.
Padded(m) ==
    [m EXCEPT !.bv = [i \in 1 .. 8 * ((Len(m.bv) + 7) \div 8) |-> BitAt(m.bv, i)]]

\* The last message parsed equals the message written.
RoundTrip == parsed.res = "Ok" /\ parsed.msg = Padded(parsed.of)

\* The bytes of s, one message after the other.
RECURSIVE Serialised(_)
Serialised(s) ==
    IF s = <<>> THEN <<>> ELSE Message_send(Head(s)) \o Serialised(Tail(s))

\* recv consumed exactly the bytes written for the messages parsed so far.
ConsumesExactly == stream = Serialised(sent)

\* A BitField of no bits or a Piece of no bytes.
EmptyPayload(m) ==
    \/ m.t = "BitField" /\ Len(m.bv) = 0
    \/ m.t = "Piece" /\ Len(m.v) = 0

\* C19 as stated: every message serialised with send and parsed back with
\* recv yields an equal message (a BitField padded to whole bytes) and recv
\* consumes exactly the bytes written.
C19_RoundTripAll ==
    /\ parsed.res # "none" => RoundTrip
    /\ ConsumesExactly

\* C19: every message other than a BitField of no bits and a Piece of no
\* bytes, serialised with send and parsed back with recv, yields an equal
\* message (a BitField padded with zero bits to whole bytes); recv consumes
\* exactly the bytes written of every message, so a stream of several
\* messages parses back in order.
C19_RoundTrip ==
    /\ parsed.res # "none" /\ ~EmptyPayload(parsed.of) => RoundTrip
    /\ ConsumesExactly

\* A BitField of four bits came back as eight, from a stream that holds
\* further messages.
C19_Witness ==
    /\ parsed.res = "Ok"
    /\ parsed.of = Field(<<0, 0, 0, 1>>)
    /\ parsed.msg = Field(<<0, 0, 0, 1, 0, 0, 0, 0>>)
    /\ Len(sent) > 0
    /\ stream # <<>>

\* ------------------------------------------------- availability bitmap
\* The availability BitVec of one connection of a torrent of more than eight
\* pieces: its receiver accepts BitField and Have, its sender handles
\* ClientHave.  (With num_pieces <= 8, as in the specifications above, every
\* received bitmap is at least num_pieces bits long.)
NumPiecesMap == 9
MaxFieldBytes == 2
FieldBytes == {0, 129, 255}
FieldInputs == UNION {[1 .. k -> FieldBytes] : k \in 1 .. MaxFieldBytes}
\* The indices drawn: the first piece, one in the second byte, the last
\* piece and, for Have, one past the last.
IndexInputs == {0, 8, NumPiecesMap - 1}

\* Connection::new: bitvec![0; num_pieces], both threads running.
BitmapInit ==
    /\ Established(0, TRUE, FALSE)
    /\ NoBuilder
    /\ NoChoker
    /\ NoSelector
    /\ NoCodec
    /\ NoTimers
    /\ NoLocks
    /\ NoQueue
    /\ bitmap = [i \in 1 .. NumPiecesMap |-> 0]
    /\ bitmap_received = FALSE
    /\ bitmap_threads = [receiver |-> "running", sender |-> "running"]
    /\ bitmap_poisoned = FALSE
    /\ bitmap_haves = {}

BitmapFrame ==
    UNCHANGED <<storeVars, connVars, recvVars, sendVars, budget, builderVars,
                metrics, instants, chokeVars, selVars, codecVars, timeVars, lockVars, queueVars>>

\* self.availability.lock().unwrap() of a running thread: a poisoned lock
\* makes the thread panic.
Locks(thread) == bitmap_threads[thread] = "running"
Panics(thread) == bitmap_threads' = [bitmap_threads EXCEPT ![thread] = "panicked"]
Closes(thread) == bitmap_threads' = [bitmap_threads EXCEPT ![thread] = "closed"]

\* Receiver::bitfield of a BitField whose payload is bytes.
BitmapBitField(bytes) ==
    /\ Locks("receiver")
    /\ IF bitmap_received
       THEN /\ Closes("receiver")
            /\ UNCHANGED <<bitmap, bitmap_received, bitmap_poisoned>>
       ELSE IF bitmap_poisoned
       THEN /\ Panics("receiver")
            /\ UNCHANGED <<bitmap, bitmap_received, bitmap_poisoned>>
       ELSE /\ bitmap' = truncate(from_slice(bytes), NumPiecesMap)
            /\ IF bitmap_threads.sender = "running"
               THEN bitmap_received' = TRUE /\ UNCHANGED bitmap_threads
               ELSE Closes("receiver") /\ UNCHANGED bitmap_received
            /\ UNCHANGED bitmap_poisoned
    /\ UNCHANGED bitmap_haves
    /\ BitmapFrame

\* Receiver::have
BitmapHave(index) ==
    /\ Locks("receiver")
    /\ IF index >= NumPiecesMap
       THEN /\ Closes("receiver")
            /\ UNCHANGED <<bitmap, bitmap_poisoned>>
       ELSE IF bitmap_poisoned
       THEN /\ Panics("receiver")
            /\ UNCHANGED <<bitmap, bitmap_poisoned>>
       ELSE IF index >= Len(bitmap)
       THEN /\ Panics("receiver")
            /\ bitmap_poisoned' = TRUE
            /\ UNCHANGED bitmap
       ELSE /\ bitmap' = [bitmap EXCEPT ![index + 1] = 1]
            /\ IF bitmap_threads.sender = "running"
               THEN UNCHANGED bitmap_threads
               ELSE Closes("receiver")
            /\ UNCHANGED bitmap_poisoned
    /\ UNCHANGED <<bitmap_received, bitmap_haves>>
    /\ BitmapFrame

\* Sender::handle_client_have, index being a piece the store has stored.
BitmapClientHave(index) ==
    /\ Locks("sender")
    /\ IF bitmap_poisoned
       THEN /\ Panics("sender")
            /\ UNCHANGED <<bitmap_poisoned, bitmap_haves>>
       ELSE IF index >= Len(bitmap)
       THEN /\ Panics("sender")
            /\ bitmap_poisoned' = TRUE
            /\ UNCHANGED bitmap_haves
       ELSE /\ bitmap_haves' =
                 IF bitmap[index + 1] = 0 THEN bitmap_haves \cup {index}
                 ELSE bitmap_haves
            /\ UNCHANGED <<bitmap_threads, bitmap_poisoned>>
    /\ UNCHANGED <<bitmap, bitmap_received>>
    /\ BitmapFrame

BitmapNext ==
    \/ \E bytes \in FieldInputs : BitmapBitField(bytes)
    \/ \E index \in IndexInputs \cup {NumPiecesMap} : BitmapHave(index)
    \/ \E index \in IndexInputs : BitmapClientHave(index)

BitmapSpec == BitmapInit /\ [][BitmapNext]_vars

\* No thread of the connection panicked.
NoIndexPanic ==
    bitmap_threads.receiver # "panicked" /\ bitmap_threads.sender # "panicked"

\* C20: in every reachable state the availability bitmap has exactly P bits,
\* also after a BitField of any received length was accepted, so Have(i) and
\* ClientHave(i) for any i < P can index it.
C20_BitmapLength == Len(bitmap) = NumPiecesMap /\ NoIndexPanic

\* C21: after any sequence of request_pieces calls, rarity[i] is the number
\* of peers whose last-seen availability contains piece i (a later call of a
\* peer counts exactly the pieces new in its availability).
C21_RarityCounts ==
    selected.calls > 0 =>
        \A i \in RarePieces :
            RarityOf(i) = Cardinality({id \in DOMAIN history : i \in history[id]})

\* The receiver of c hands a complete piece to the store in this step.
StoresPiece(c) == rstore[c] = NoStore /\ rstore'[c] # NoStore

\* The sender of c writes a Piece in this step.
SendsPiece(c) ==
    /\ Len(wire'[c].log) = Len(wire[c].log) + 1
    /\ wire'[c].log[Len(wire'[c].log)].t = "Piece"

\* The accumulators grow by the bytes stored and by the bytes sent.
CountsBytes(c) ==
    /\ StoresPiece(c) =>
         metrics'[c].downloaded = metrics[c].downloaded + Len(rstore'[c].payload)
    /\ SendsPiece(c) =>
         metrics'[c].uploaded =
             metrics[c].uploaded + Len(wire'[c].log[Len(wire'[c].log)].data)

\* C22: the downloaded accumulator grows by the payload bytes of every piece
\* the receiver stores and the uploaded accumulator by the bytes of every
\* Piece the sender sends, so that each sample holds the bytes moved since
\* the previous one.
C22_CountsBytes == [][\A c \in Peers : CountsBytes(c)]_vars

\* The connections a tick wants unchoked: preferred, auxiliary and the
\* optimistic slot, by the list and the snapshots the tick leaves behind.
WantedUnchoked ==
    {connections'[k] : k \in
        IF phase = "download"
        THEN download_downloaders(connections', snapshot')
             \cup download_unchoked(connections', snapshot')
        ELSE upload_uploaders(connections', snapshot')
             \cup upload_unchoked(connections', snapshot')}
    \cup Range(optimistic_unchoke')

\* The command a tick queues for c, none leaving the last one in place.
CommandsBySnapshot(c) ==
    conn'[c].cmd =
        IF c \in WantedUnchoked /\ snapshot'[c].state.client_choked
        THEN "unchoke"
        ELSE IF /\ c \in Range(connections') \ WantedUnchoked
                /\ ~snapshot'[c].state.client_choked
        THEN "choke"
        ELSE conn[c].cmd

\* C23: in every choke tick a connection is sent Choke(false) iff it is in
\* preferred, auxiliary or the optimistic slot and its snapshot says
\* client_choked, Choke(true) iff it is in none of them and its snapshot says
\* not client_choked, and no command otherwise.
C23_CommandsBySnapshot ==
    [][ticks' = ticks + 1 => \A c \in DOMAIN conn : CommandsBySnapshot(c)]_vars

\* After the second download tick: one connection is told to unchoke, one to
\* choke, and one that is unchoked already and stays so is told nothing.
C23_Witness ==
    /\ phase = "download"
    /\ ticks = 2
    /\ \E c \in DOMAIN conn : conn[c].cmd = "unchoke" /\ snapshot[c].state.client_choked
    /\ \E c \in DOMAIN conn : conn[c].cmd = "choke" /\ ~snapshot[c].state.client_choked
    /\ \E c \in Range(connections) :
        /\ conn[c].cmd = "none"
        /\ ~snapshot[c].state.client_choked
        /\ ~snapshot[c].state.peer_choked
        /\ snapshot[c].state.peer_interested

\* Handling PeerChoke(true) leaves nothing pending, nothing queued and no
\* slot reserved for the connection.
ChokeClears ==
    \A c \in Peers :
        Handles(c, PeerChoke(TRUE)) =>
            /\ pending'[c] = {}
            /\ requests'[c] = <<>>
            /\ \A i \in PieceIdx : data'[i] # Requested(c)

\* Handling PeerChoke(false) queues requests, and only when the sender is
\* interested, the peer is not choking and few requests are pending.
UnchokeQueues ==
    \A c \in Peers :
        Handles(c, PeerChoke(FALSE)) =>
            LET may == /\ state[c].client_interested
                       /\ ~state[c].peer_choked
                       /\ Cardinality(pending[c]) <= QUEUE_LENGTH \div 2
            IN  /\ ~may => requests'[c] = requests[c] /\ pending'[c] = pending[c]
                /\ may /\ Needed(c) # {} =>
                     /\ Len(requests'[c]) > Len(requests[c])
                     /\ pending[c] \subseteq pending'[c]
                     /\ pending'[c] # pending[c]

\* C24: after the sender handles PeerChoke(true) its pending set and its
\* request queue are empty and no slot is Requested by its id; on
\* PeerChoke(false) it queues new requests at once, when it is interested,
\* the peer is not choking and at most QUEUE_LENGTH/2 are pending.
C24_PeerChoke == [][ChokeClears /\ UnchokeQueues]_vars

\* A sender with requests pending and slots reserved is about to handle
\* PeerChoke(true).
C24_Witness ==
    \E c \in Peers :
        /\ spc[c] \in {"loop", "wait"}
        /\ chan[c] # <<>>
        /\ Head(chan[c]) = PeerChoke(TRUE)
        /\ pending[c] # {}
        /\ \E i \in PieceIdx : data[i] = Requested(c)

\* The sender of c runs queue_pieces in this step: a pass of its loop, or
\* the handling of PeerChoke(false).
QueuesPieces(c) ==
    \/ SenderPass(c)
    \/ SenderCommand(c) /\ Head(chan[c]) = PeerChoke(FALSE)

\* queue_pieces asks the store, and the store finds nothing selectable.
NothingSelectable(c) ==
    /\ state[c].client_interested
    /\ ~state[c].peer_choked
    /\ Cardinality(pending[c]) <= QUEUE_LENGTH \div 2
    /\ Needed(c) = {}

\* The number of NotInterested messages the sender of c has written.
NotInterestedSent(c) == Len(OnWire(c, "NotInterested"))

\* What the empty result does: nothing to the store, NotInterested and the
\* flag cleared exactly when nothing is pending, and the sender goes on.
EmptyResult(c) ==
    /\ data' = data
    /\ inprogress' = inprogress
    /\ pending'[c] = pending[c]
    /\ spc'[c] \in {"loop", "wait"}
    /\ IF pending[c] = {}
       THEN /\ ~state'[c].client_interested
            /\ NotInterestedSent(c)' = NotInterestedSent(c) + 1
       ELSE /\ state'[c].client_interested
            /\ NotInterestedSent(c)' = NotInterestedSent(c)

\* C25: when request_pieces finds nothing selectable no piece slot and no
\* in-progress set changes; the sender sends NotInterested and clears
\* client_interested exactly when its pending set is empty, and it stays in
\* its loop.
C25_EmptyResult ==
    [][\A c \in Peers : QueuesPieces(c) /\ NothingSelectable(c) => EmptyResult(c)]_vars

\* One sender has given up its interest because another holds every piece
\* it could ask for, and that other one keeps its interest with requests
\* pending.
C25_Witness ==
    \E c, d \in Peers :
        /\ c # d
        /\ spc[c] \in {"loop", "wait"}
        /\ ~state[c].client_interested
        /\ ~state[c].peer_choked
        /\ NotInterestedSent(c) = 1
        /\ availability[c] # {}
        /\ spc[d] \in {"loop", "wait"}
        /\ state[d].client_interested
        /\ pending[d] # {}
        /\ Needed(d) = {}
        /\ requests[d] = <<>>

\* The receiver of c takes the Request r off the socket in this step.
ReceivesRequest(c, r) == RecvRequest(c, r[1], r[2], r[3])

\* The step puts SendChunk for r at the end of the sender's channel.
Forwards(c, r) == chan'[c] = Append(chan[c], SendChunk(r[1], r[2], r[3]))

\* The step leaves the channel, the sender's Piece queue and the wire as
\* they are, and the receiver goes on reading.
Dropped(c) ==
    /\ chan' = chan
    /\ spieces' = spieces
    /\ wire' = wire
    /\ rpc'[c] = "run"

\* C26: a received Request is forwarded as SendChunk exactly when
\* client_choked is false at that moment; received while client_choked is
\* true it produces no command, no Piece and no error.
C26_RequestGate ==
    [][\A c \in Peers : \A r \in RequestInputs :
          ReceivesRequest(c, r) =>
              /\ Forwards(c, r) <=> ~state[c].client_choked
              /\ state[c].client_choked => Dropped(c)]_vars

\* The same with the command channel still open, which is where the
\* receiver's decision alone settles the outcome.
C26_RequestGateOpen ==
    [][\A c \in Peers : \A r \in RequestInputs :
          ReceivesRequest(c, r) /\ ChannelOpen(c) =>
              /\ Forwards(c, r) <=> ~state[c].client_choked
              /\ state[c].client_choked => Dropped(c)]_vars

\* --------------------------------------------------- in-order selection
\* Inorder::request_pieces alone, called with any pair of bitmaps and any n.
InorderRequest(required, available, n) ==
    /\ selected.calls < MaxCalls
    /\ selected' = [required |-> required, available |-> available, n |-> n,
                    ret |-> Inorder_request_pieces(required, available, n),
                    calls |-> selected.calls + 1]
    /\ UNCHANGED <<storeVars, connVars, recvVars, sendVars, budget, builderVars,
                   metrics, instants, chokeVars, history, rarity, codecVars,
                   mapVars, timeVars, lockVars, queueVars>>

InorderInit ==
    /\ Established(0, TRUE, FALSE)
    /\ NoBuilder
    /\ NoUnits

InorderNext ==
    \E required \in SUBSET RarePieces : \E available \in SUBSET RarePieces :
    \E n \in 0 .. MaxN :
        InorderRequest(required, available, n)

InorderSpec == InorderInit /\ [][InorderNext]_vars

\* The pieces the last call could choose from.
Selectable == selected.required \cap selected.available

\* C28: in-order request_pieces returns exactly the first
\* min(n, |required AND available|) indices of required AND available, in
\* ascending order, and nothing else; n = 0 gives the empty list.
C28_InorderFirst ==
    selected.calls > 0 =>
        /\ Len(selected.ret) = Min({selected.n, Cardinality(Selectable)})
        /\ Returned \subseteq Selectable
        /\ \A k \in 1 .. Len(selected.ret) - 1 : selected.ret[k] < selected.ret[k + 1]
        /\ \A i \in Returned : \A j \in Selectable \ Returned : i < j
        /\ selected.n = 0 => selected.ret = <<>>

\* One piece was asked for where piece 0 is required but not available and
\* pieces 1 and 2 are both: piece 1 came back, alone.
C28_Witness ==
    /\ selected.calls > 0
    /\ selected.required = {0, 1, 2}
    /\ selected.available = {1, 2}
    /\ selected.n = 1
    /\ selected.ret = <<1>>

\* ----------------------------------------------------- BiTOS selection
\* What Bitos::request_pieces hands to the rarest half as required: the
\* caller's required set without the picks of the in-order half, kept by
\* mistake (C27 must tell them apart).
state_c_required_kept(required, v) == required

\* state_c.required after v.iter().for_each(|i| state_c.required.set(i, false)).
state_c_required(required, v) == required \ Range(v)

\* The n draws of rng.gen(): TRUE where r <= inorder_p.
Draws(n) == [1 .. n -> BOOLEAN]

\* Bitos::request_pieces(id, State {required, available}, n): the slots are
\* dealt by the draws, the in-order half picks first, the rarest half picks
\* from what is left of required and keeps its history and rarity counts.
BitosRequest(id, required, available, n) ==
    /\ selected.calls < MaxCalls
    /\ \E draws \in Draws(n) :
       \E num_inorder \in {Cardinality({k \in 1 .. n : draws[k]})} :
       \E num_rare \in {Cardinality({k \in 1 .. n : ~draws[k]})} :
       \E first \in {Inorder_request_pieces(required, available, num_inorder)} :
       \E required_c \in {state_c_required(required, first)} :
       \E bv \in {IF id \in DOMAIN history THEN history[id] \ available
                  ELSE available} :
       \E rar \in {update_rarity(rarity, bv)} :
       \E v \in {sort_by_key(SortedSeq(required_c), rar)} :
        /\ history' = [i \in DOMAIN history \cup {id} |->
                         IF i = id THEN available ELSE history[i]]
        /\ rarity' = rar
        /\ \E second \in
               IF Len(v) = 0 THEN {<<>>}
               ELSE {take_while(v, rar, max_rarity(v, num_rare, rar))
                       \o truncate(rest, num_rare
                              - Len(take_while(v, rar, max_rarity(v, num_rare, rar)))) :
                     rest \in shuffle(SubSeq(v,
                                Len(take_while(v, rar, max_rarity(v, num_rare, rar))) + 1,
                                Len(v)))} :
              selected' = [required |-> required, available |-> available, n |-> n,
                           num_inorder |-> num_inorder, num_rare |-> num_rare,
                           first |-> first, required_c |-> required_c,
                           ret |-> first \o second,
                           calls |-> selected.calls + 1]
    /\ UNCHANGED <<storeVars, connVars, recvVars, sendVars, budget, builderVars,
                   metrics, instants, chokeVars, codecVars, mapVars, timeVars, lockVars, queueVars>>

BitosInit ==
    /\ Established(0, TRUE, FALSE)
    /\ NoBuilder
    /\ NoUnits

BitosNext ==
    \E id \in RareIds : \E required \in SUBSET RarePieces :
    \E available \in SUBSET RarePieces : \E n \in 0 .. MaxN :
        BitosRequest(id, required, available, n)

BitosSpec == BitosInit /\ [][BitosNext]_vars

\* C27: BiTOS request_pieces(n) returns at most n indices, none repeated,
\* all in the caller's required set; the slots of the two halves sum to n
\* and every pick of the in-order half is cleared from the required set
\* handed to the rarest half.
C27_BitosDistinct ==
    selected.calls > 0 =>
        /\ Len(selected.ret) <= selected.n
        /\ Cardinality(Returned) = Len(selected.ret)
        /\ Returned \subseteq selected.required
        /\ selected.num_inorder + selected.num_rare = selected.n
        /\ Range(selected.first) \cap selected.required_c = {}

\* Both halves picked: one slot went to the in-order half, which took piece
\* 0, two to the rarest half, which took the other two required pieces.
C27_Witness ==
    /\ selected.calls > 0
    /\ selected.n = MaxN
    /\ selected.num_inorder = 1
    /\ selected.first = <<0>>
    /\ selected.required = RarePieces
    /\ Returned = RarePieces

\* ------------------------------------------------------ connection start
\* Connection::new has spawned the two threads of a connection and has not
\* registered its channel yet: the receiver is about to read the handshake,
\* the sender about to write it.  The connections in up were made earlier:
\* they are registered, past their handshake and their BitField of the then
\* empty store, and in their loops.  The wire is recorded.
MaxEventsStart == 3

Spawned(events, up) ==
    /\ data = [i \in PieceIdx |-> Absent]
    /\ inprogress = [id \in {} |-> {}]
    /\ left = num_pieces
    /\ handlers = up
    /\ next = 0
    /\ stdout = <<>>
    /\ state = [c \in Peers |-> State_default]
    /\ availability = [c \in Peers |-> {}]
    /\ chan = [c \in Peers |-> <<>>]
    /\ registered = [c \in Peers |-> c \in up]
    /\ rpc = [c \in Peers |-> IF c \in up THEN "run" ELSE "handshake"]
    /\ rstore = [c \in Peers |-> NoStore]
    /\ piece_buffer = [c \in Peers |-> EmptyBuffer]
    /\ bitfield_received = [c \in Peers |-> FALSE]
    /\ spc = [c \in Peers |-> IF c \in up THEN "wait" ELSE "start"]
    /\ requests = [c \in Peers |-> <<>>]
    /\ pending = [c \in Peers |-> {}]
    /\ spieces = [c \in Peers |-> <<>>]
    /\ wbuf = [c \in Peers |-> FALSE]
    /\ wire = [c \in Peers |->
                 [on |-> TRUE,
                  log |-> IF c \in up
                          THEN <<Message_Handshake, Message_BitField({})>>
                          ELSE <<>>]]
    /\ metrics = [c \in Peers |-> [downloaded |-> 0, uploaded |-> 0]]
    /\ instants = {}
    /\ sock = [c \in Peers |-> "open"]
    /\ budget = events

\* Connection p1 is up and p2 has just been spawned.
StartInit == Spawned(MaxEventsStart, {"p1"}) /\ NoBuilder /\ NoUnits

\* The threads start, the channels are registered, and the download runs on
\* the connections that are up while the others are still starting.
StartNext ==
    \E c \in Peers :
        \/ Register(c)
        \/ \E hs \in {"ok", "invalid"} : RecvHandshake(c, hs)
        \/ SenderStart(c)
        \/ \E bv \in BitFieldInputs : RecvBitField(c, bv)
        \/ RecvChoke(c, FALSE)
        \/ \E i \in PieceIdx : RecvPiece(c, i, 0, RightBytes(i, 0, piece_size(i)))
        \/ RecvStore(c)
        \/ Sender(c)

StartSpec == StartInit /\ [][StartNext]_vars

\* The pieces the store holds, reserved ones not counted.
DownloadedPieces == {i \in PieceIdx : data[i].st = "Downloaded"}

\* What the sender of c has written begins with the handshake and one
\* BitField, and holds no other BitField.
StartsWithBitField(c) ==
    LET log == wire[c].log
    IN  /\ Len(log) >= 1 => log[1].t = "Handshake"
        /\ Len(log) >= 2 => log[2].t = "BitField"
        /\ \A k \in 3 .. Len(log) : log[k].t \notin {"Handshake", "BitField"}

\* The step in which the sender of c writes its first messages writes the
\* handshake and the BitField of the pieces downloaded at that moment.
AnnouncesDownloaded(c) ==
    wire[c].log = <<>> /\ wire'[c].log # <<>> =>
        wire'[c].log = <<Message_Handshake, Message_BitField(DownloadedPieces)>>

\* C29: the first thing a sender writes is the handshake, immediately
\* followed by one BitField equal to the set of Downloaded pieces at that
\* moment (Requested ones excluded); nothing precedes that BitField and no
\* second BitField is ever sent.
C29_HandshakeThenBitField ==
    [][\A c \in Peers : AnnouncesDownloaded(c) /\ StartsWithBitField(c)']_vars

\* A sender started while piece 0 was Downloaded and piece 1 reserved by
\* another connection: it announced piece 0 alone.
C29_Witness ==
    \E c \in Peers :
        /\ Len(wire[c].log) >= 2
        /\ wire[c].log[2] = Message_BitField({0})
        /\ \E d \in Peers \ {c} : data[1] = Requested(d)

\* ------------------------------------------------------------- keep-alive
\* The sender's wait on its channel against the main loop's ticks.  Time
\* advances in steps of one tick period; the threads' own steps take no
\* time.  waited is the time since the sender's recv_timeout began, silent
\* the time since it last wrote a message, seen the number of messages it
\* had written at the last step of time, pinged whether that step sent Ping,
\* now the periods that have passed.
TickSecs == 10
KeepAliveSecs == 90
MaxPeriods == 11

\* recv_timeout(90 s), in tick periods.
Timeout == KeepAliveSecs \div TickSecs

\* The sender of c has written a message since the last step of time.
WroteSince(c) == Len(wire[c].log) > timers.seen[c]

\* The sender of c has begun a new recv_timeout since the last step of
\* time: it has written KeepAlive or handled a command.
Restarted(c) == WroteSince(c) \/ timers.pinged[c]

\* recv_timeout of c's sender returns Timeout now.
Due(c) ==
    /\ spc[c] = "wait"
    /\ chan[c] = <<>>
    /\ ~Restarted(c)
    /\ timers.waited[c] >= Timeout

\* One tick period passes, every sender blocked on its channel and no
\* timeout due.  With tick the main loop runs the choker at the end of it:
\* Choke::setup calls is_shutdown on every connection, which sends Ping.
\* Before the loops start (the connections are being made) no tick runs;
\* once they run, every period ends in one.
TimePasses(tick) ==
    /\ \A c \in Peers : spc[c] = "wait" /\ chan[c] = <<>> /\ ~Due(c)
    /\ timers.now < MaxPeriods
    /\ timers.started => tick
    /\ timers' = [started |-> tick,
                  now |-> timers.now + 1,
                  silent |-> [c \in Peers |->
                                IF WroteSince(c) THEN 1 ELSE timers.silent[c] + 1],
                  waited |-> [c \in Peers |->
                                IF Restarted(c) THEN 1 ELSE timers.waited[c] + 1],
                  seen |-> [c \in Peers |-> Len(wire[c].log)],
                  pinged |-> [c \in Peers |-> tick]]
    /\ chan' = IF tick THEN [c \in Peers |-> Append(chan[c], Ping)] ELSE chan
    /\ UNCHANGED <<storeVars, state, availability, registered, sock, recvVars,
                   sendVars, budget, builderVars, metrics, instants, chokeVars,
                   selVars, codecVars, mapVars, lockVars, queueVars>>

\* recv_timeout returns Timeout: KeepAlive is written, the wait goes on.
SenderTimeout(c) == Due(c) /\ SenderKeepAlive(c)

KeepAliveInit ==
    /\ Established(0, TRUE, TRUE)
    /\ NoBuilder
    /\ NoChoker
    /\ NoSelector
    /\ NoCodec
    /\ NoBitmap
    /\ NoLocks
    /\ NoQueue
    /\ timers = [started |-> FALSE,
                 now |-> 0,
                 silent |-> [c \in Peers |-> 0],
                 waited |-> [c \in Peers |-> 0],
                 seen |-> [c \in Peers |-> 0],
                 pinged |-> [c \in Peers |-> FALSE]]

KeepAliveNext ==
    \/ \E tick \in BOOLEAN : TimePasses(tick)
    \/ \E c \in Peers :
        \/ SenderTimeout(c)
        \/ SenderCommand(c)
        \/ SenderPass(c)

KeepAliveSpec == KeepAliveInit /\ [][KeepAliveNext]_vars

\* C30: a sender blocked on its channel with both queues empty sends a
\* KeepAlive whenever 90 seconds pass in which it sends no other message,
\* also while the choker runs its periodic ticks against the connection: it
\* is never silent for longer than the timeout.
C30_KeepAlive ==
    \A c \in Peers : spc[c] = "wait" => timers.silent[c] <= Timeout

\* The same before the main loop runs its ticks.
KeepAliveBeforeTicks ==
    \A c \in Peers :
        spc[c] = "wait" /\ ~timers.started => timers.silent[c] <= Timeout

\* ------------------------------------------- the store and its selector
\* PieceStore::request_pieces with each selector PieceStore::new can be
\* given, called for any peer with any availability and any n, between
\* store() calls for the pieces it has assigned.
MaxCallsAssign == 3
Selectors == {"inorder", "rarest", "bitos"}

\* Rare::request_pieces after the update of history and rarity: the results
\* the shuffle allows.
Rare_request_pieces(rar, required, n) ==
    LET v == sort_by_key(SortedSeq(required), rar)
    IN  IF Len(v) = 0 THEN {<<>>}
        ELSE LET ret == take_while(v, rar, max_rarity(v, n, rar))
             IN  {ret \o truncate(rest, n - Len(ret)) :
                    rest \in shuffle(SubSeq(v, Len(ret) + 1, Len(v)))}

\* Bitos::request_pieces: the results the draws and the shuffle allow.
Bitos_request_pieces(rar, required, available, n) ==
    UNION {LET first == Inorder_request_pieces(required, available, num_inorder)
           IN  {first \o second :
                  second \in Rare_request_pieces(rar, state_c_required(required, first),
                                                 n - num_inorder)} :
           num_inorder \in 0 .. n}

\* self.selector.request_pieces(id, State {required, available}, n)
Selector_request_pieces(kind, rar, required, available, n) ==
    CASE kind = "inorder" -> {Inorder_request_pieces(required, available, n)}
      [] kind = "rarest" -> Rare_request_pieces(rar, required, n)
      [] kind = "bitos" -> Bitos_request_pieces(rar, required, available, n)

\* availability |= self.as_bitvec(false)
request_available(dat, avail) == avail \cup as_bitvec(dat, FALSE)

\* PieceStore::request_pieces(id, availability, n) under the store's
\* selector: the selector keeps its history and rarity counts (in-order has
\* none), the indices it returns are marked.
AssignRequest(id, avail, n) ==
    /\ selected.calls < MaxCallsAssign
    /\ \E available \in {request_available(data, avail)} :
       \E bv \in {IF id \in DOMAIN history THEN history[id] \ available
                  ELSE available} :
       \E rar \in {IF selected.kind = "inorder" THEN rarity
                   ELSE update_rarity(rarity, bv)} :
       \E v \in Selector_request_pieces(selected.kind, rar, request_required(data),
                                        available, n) :
        /\ history' = IF selected.kind = "inorder" THEN history
                      ELSE [i \in DOMAIN history \cup {id} |->
                              IF i = id THEN available ELSE history[i]]
        /\ rarity' = rar
        /\ selected' = [kind |-> selected.kind, id |-> id, availability |-> avail,
                        before |-> data, ret |-> v, calls |-> selected.calls + 1]
        /\ data' = MarkAll(data, inprogress, id, v).data
        /\ inprogress' = MarkAll(data, inprogress, id, v).inprogress
    /\ UNCHANGED <<left, handlers, next, stdout, connVars, recvVars, sendVars, budget,
                   builderVars, metrics, instants, chokeVars, codecVars, mapVars,
                   timeVars, lockVars, queueVars>>

\* PieceStore::store for a piece the peer id was assigned.
AssignStore(id, index) ==
    /\ data[index] = Requested(id)
    /\ store(id, index, Payload(index))
    /\ UNCHANGED <<state, availability, registered, sock, recvVars, sendVars, budget,
                   builderVars, metrics, instants, unitVars>>

AssignInit ==
    /\ Established(0, TRUE, FALSE)
    /\ NoBuilder
    /\ NoChoker
    /\ NoCodec
    /\ NoBitmap
    /\ NoTimers
    /\ NoLocks
    /\ NoQueue
    /\ history = [id \in {} |-> {}]
    /\ rarity = <<>>
    /\ \E kind \in Selectors :
        selected = [kind |-> kind, id |-> "", availability |-> {},
                    before |-> data, ret |-> <<>>, calls |-> 0]

AssignNext ==
    \E id \in Peers :
        \/ \E avail \in SUBSET PieceIdx : \E n \in 0 .. MaxN : AssignRequest(id, avail, n)
        \/ \E index \in PieceIdx : AssignStore(id, index)

AssignSpec == AssignInit /\ [][AssignNext]_vars

\* Every index of the last call's result is a piece the peer advertised and
\* the client was missing.
AssignsAdvertised ==
    \A i \in Returned :
        /\ i \in selected.availability
        /\ selected.before[i] = Absent

\* C31: every index request_pieces assigns to a peer is a piece the peer has
\* advertised in its availability and the client was missing, under each of
\* the three selectors.
C31_AssignsAdvertised ==
    selected.calls > 0 => AssignsAdvertised

\* The same under the in-order selector alone.
AssignsAdvertisedInorder ==
    selected.calls > 0 /\ selected.kind = "inorder" => AssignsAdvertised

\* Under every selector an assigned piece was missing.
AssignsMissing ==
    selected.calls > 0 => \A i \in Returned : selected.before[i] = Absent

\* The peer of c has been or is about to be told that the client holds
\* piece i: i was in the initial BitField, ClientHave(i) waits in the
\* sender's channel, the sender has written Have(i), or it has left Have(i)
\* out because the peer has the piece.
Told(c, i) ==
    \/ Len(wire[c].log) >= 2 /\ i \in wire[c].log[2].bits
    \/ \E k \in 1 .. Len(chan[c]) : chan[c][k] = ClientHave(i)
    \/ \E k \in 1 .. Len(wire[c].log) : wire[c].log[k] = Message_Have(i)
    \/ i \in availability[c]

\* Connection::new has returned for c, and its sender is past the initial
\* BitField and still running.
SetUp(c) ==
    /\ registered[c]
    /\ spc[c] \in {"loop", "wait"}
    /\ Len(wire[c].log) >= 2

\* C32: on every connection the peer is told about every piece the client
\* has Downloaded, by the initial BitField or by a ClientHave delivered to
\* the connection's sender, however the connection's setup interleaves with
\* store() calls of other connections.
C32_ToldEveryPiece ==
    \A c \in Peers : \A i \in PieceIdx :
        SetUp(c) /\ data[i].st = "Downloaded" => Told(c, i)

\* The same for the connection that was set up before any piece came.
ToldWhenSetUpFirst ==
    \A i \in PieceIdx :
        SetUp("p1") /\ data[i].st = "Downloaded" => Told("p1", i)

\* ------------------------------------------------------ asking for pieces
\* Two fresh connections whose peers announce every piece and choke and
\* unchoke the client.
MaxEventsAsk == 5

AskInit == Established(MaxEventsAsk, TRUE, TRUE) /\ NoBuilder /\ NoUnits

AskNext ==
    \E c \in Peers :
        \/ RecvBitField(c, PieceIdx)
        \/ \E b \in BOOLEAN : RecvChoke(c, b)
        \/ Sender(c)

AskSpec == AskInit /\ [][AskNext]_vars

\* The connection c is live, its peer has piece i and is not choking the
\* client, and the piece is Absent.
CouldAsk(c, i) ==
    /\ rpc[c] = "run"
    /\ spc[c] \in {"loop", "wait"}
    /\ i \in availability[c]
    /\ ~state[c].peer_choked
    /\ data[i] = Absent

\* Every thread has run as far as it can: each sender is blocked on its
\* empty channel or has ended, no receiver is about to store.  Only a new
\* message of a peer changes such a state.
Settled ==
    \A c \in Peers :
        /\ spc[c] \in {"wait", "done", "panicked"}
        /\ chan[c] = <<>>
        /\ rpc[c] # "storing"

\* C33: a piece that is Absent while a live connection's peer has it and is
\* not choking the client is eventually Requested or Downloaded under fair
\* scheduling, also when the piece went back to Absent after this
\* connection had sent NotInterested: the threads never come to rest in
\* such a situation.
C33_EventuallyRequested ==
    Settled => \A c \in Peers : \A i \in PieceIdx : ~CouldAsk(c, i)

\* The same for a sender that is interested.
AsksWhenInterested ==
    Settled =>
        \A c \in Peers : \A i \in PieceIdx :
            state[c].client_interested => ~CouldAsk(c, i)

\* ------------------------------------------------------ answered requests
\* Two fresh connections whose peers announce every piece, choke, unchoke
\* and deliver piece 0 whole and correct.
MaxEventsAnswer == 6

AnswerInit == Established(MaxEventsAnswer, TRUE, TRUE) /\ NoBuilder /\ NoUnits

AnswerNext ==
    \E c \in Peers :
        \/ RecvBitField(c, PieceIdx)
        \/ \E b \in BOOLEAN : RecvChoke(c, b)
        \/ RecvPiece(c, 0, 0, RightBytes(0, 0, piece_size(0)))
        \/ RecvStore(c)
        \/ Sender(c)

AnswerSpec == AnswerInit /\ [][AnswerNext]_vars

\* The Requests for piece i the client has written on c.
RequestsSent(c, i) ==
    Len(SelectSeq(wire[c].log, LAMBDA m : m.t = "Request" /\ m.index = i))

\* The step delivers on c a correct Piece 0 that answers a Request the
\* client sent on c: fewer pieces have arrived on c than were asked for.
AnswerArrives(c) ==
    /\ RecvPiece(c, 0, 0, RightBytes(0, 0, piece_size(0)))
    /\ metrics[c].downloaded < RequestsSent(c, 0)

\* C34: a Piece that answers a Request the client sent on the connection
\* and carries the correct payload never makes the receiver fail, whatever
\* the other connections do meanwhile.
C34_AnswerKeepsConnection ==
    [][\A c \in Peers : AnswerArrives(c) => rpc'[c] # "done"]_vars

\* The same while no other connection has been assigned the piece since.
AnswerWhileReserved ==
    [][\A c \in Peers : AnswerArrives(c) /\ data[0] = Requested(c) => rpc'[c] # "done"]_vars

\* The same where every Piece that has arrived on any connection answered a
\* Request sent on it.
AnswerAmongAnswers ==
    [][\A c \in Peers :
          /\ AnswerArrives(c)
          /\ \A d \in Peers : metrics[d].downloaded <= RequestsSent(d, 0)
          => rpc'[c] # "done"]_vars

\* C35: after the sender has written Choke and until it next writes
\* Unchoke it writes no Piece, however the choker's Choke command
\* interleaves with the Requests that arrive at the receiver.
C35_NoPieceWhileChoked ==
    \A c \in Peers :
        \A k \in 1 .. Len(wire[c].log) : \A j \in 1 .. Len(wire[c].log) :
            /\ k < j
            /\ wire[c].log[k].t = "Choke"
            /\ wire[c].log[j].t = "Piece"
            => \E m \in (k + 1) .. (j - 1) : wire[c].log[m].t = "Unchoke"

\* The same for the Requests that arrive after the sender has handled the
\* Choke command: no SendChunk is forwarded while client_choked is set.
NoChunkWhileChoked ==
    [][\A c \in Peers : \A r \in RequestInputs :
          ReceivesRequest(c, r) /\ state[c].client_choked => chan' = chan]_vars

\* C36: whenever the sender blocks on the command channel, nothing it has
\* written is still in the write buffer.
C36_FlushedWhenWaiting ==
    \A c \in Peers : spc[c] = "wait" => ~wbuf[c]

\* What the buffer of a waiting sender can hold: the Piece written at the end
\* of the last pass, or the KeepAlives written since.
UnflushedTail ==
    \A c \in Peers :
        spc[c] = "wait" /\ wbuf[c] =>
            /\ wire[c].log # <<>>
            /\ wire[c].log[Len(wire[c].log)].t \in {"Piece", "KeepAlive"}

\* ------------------------------------------------------------------ locking
\* The locks of the program and the threads that take them.
Thread(role, c) == <<role, c>>
NoThread == <<"", "">>
\* Both threads of one connection, the sender of another, the choker and
\* the acceptor.
Threads ==
    {Thread("sender", "p1"), Thread("receiver", "p1"), Thread("sender", "p2"),
     Thread("choker", ""), Thread("acceptor", "")}

\* Arc<RwLock<PieceStore>> (bin.rs), PieceStore::handlers (Mutex), and per
\* connection State (RwLock), availability, num_downloaded, num_uploaded
\* (Mutex).
StoreLock == <<"store", "">>
HandlersLock == <<"handlers", "">>
StateLock(c) == <<"state", c>>
AvailabilityLock(c) == <<"availability", c>>
DownloadedLock(c) == <<"downloaded", c>>
UploadedLock(c) == <<"uploaded", c>>
LockNames ==
    {StoreLock, HandlersLock}
        \cup {l[c] : l \in {[d \in Peers |-> StateLock(d)],
                            [d \in Peers |-> AvailabilityLock(d)],
                            [d \in Peers |-> DownloadedLock(d)],
                            [d \in Peers |-> UploadedLock(d)]}, c \in Peers}

Read(l) == [op |-> "read", l |-> l]
Write(l) == [op |-> "write", l |-> l]
Lock(l) == [op |-> "lock", l |-> l]
Unlock(l) == [op |-> "unlock", l |-> l]
\* tx.send on an mpsc::channel(), which is unbounded: it never waits.
ChannelSend(c) == [op |-> "send", l |-> <<"chan", c>>]

\* Between two statements of a handler no guard is held, so a handler is a
\* succession of the sections below, each one statement or block with the
\* guards it takes; a thread takes up its sections in any order.

\* Sender::interested and handle_client_choke: the flag is set in a block of
\* its own.
interested_locks(c) == <<Write(StateLock(c)), Unlock(StateLock(c))>>

\* Sender::queue_pieces: request_pieces runs under the store's write lock
\* with the availability locked for the argument; both guards live to the
\* end of the statement.
queue_pieces_locks(c) ==
    <<Write(StoreLock), Lock(AvailabilityLock(c)),
      Unlock(AvailabilityLock(c)), Unlock(StoreLock)>>

\* Receiver::have with the store consulted while the availability is locked
\* (a faulty nesting, to be told apart).
Receiver_have_checked(c) ==
    <<Lock(AvailabilityLock(c)), Read(StoreLock), Unlock(StoreLock),
      Unlock(AvailabilityLock(c))>>

\* Receiver::have and bitfield: the bits are set and the guard dropped
\* before the command is sent.
Receiver_have(c) ==
    <<Lock(AvailabilityLock(c)), Unlock(AvailabilityLock(c))>>

\* PieceStore::store as Receiver::piece calls it: under the store's write
\* lock the handlers mutex is taken and ClientHave sent to every handler.
store_locks(c) ==
    <<Write(StoreLock), Lock(HandlersLock), ChannelSend(c),
      Unlock(HandlersLock), Unlock(StoreLock)>>

\* The sections of a sender: as_bitvec, check_if_needed and get under the
\* store's read lock; the availability in handle_client_have and
\* handle_bitfield; the state written and cloned; clear_requests.
SenderHandlers(c) ==
    {<<Read(StoreLock), Unlock(StoreLock)>>,
     <<Lock(AvailabilityLock(c)), Unlock(AvailabilityLock(c))>>,
     interested_locks(c),
     <<Read(StateLock(c)), Unlock(StateLock(c))>>,
     queue_pieces_locks(c),
     <<Write(StoreLock), Unlock(StoreLock)>>}

\* The sections of a receiver: choke and interest write the state, request
\* reads it, have and bitfield lock the availability, piece reads the store,
\* counts the download and stores; send_command follows a dropped guard.
ReceiverHandlers(c) ==
    {<<Write(StateLock(c)), Unlock(StateLock(c))>>,
     <<Read(StateLock(c)), Unlock(StateLock(c))>>,
     Receiver_have(c),
     <<ChannelSend(c)>>,
     <<Read(StoreLock), Unlock(StoreLock)>>,
     <<Lock(DownloadedLock(c)), Unlock(DownloadedLock(c))>>,
     store_locks(c)}

\* Connection::update_snapshot, one guard at a time, and the commands the
\* choker sends.
ChokerHandlers ==
    UNION {{<<Lock(AvailabilityLock(c)), Unlock(AvailabilityLock(c))>>,
            <<Read(StateLock(c)), Unlock(StateLock(c))>>,
            <<Lock(DownloadedLock(c)), Unlock(DownloadedLock(c))>>,
            <<Lock(UploadedLock(c)), Unlock(UploadedLock(c))>>,
            <<ChannelSend(c)>>} : c \in Peers}

\* Connection::new registers the channel under the store's read lock; the
\* main thread reads `left` in its download loop.
AcceptorHandlers ==
    {<<Read(StoreLock), Lock(HandlersLock), Unlock(HandlersLock), Unlock(StoreLock)>>,
     <<Read(StoreLock), Unlock(StoreLock)>>}

HandlersOf(t) ==
    IF t[1] = "sender" THEN SenderHandlers(t[2])
    ELSE IF t[1] = "receiver" THEN ReceiverHandlers(t[2])
    ELSE IF t[1] = "choker" THEN ChokerHandlers
    ELSE AcceptorHandlers

Busy(t) == threads[t] # <<>>
Wants(t, op, l) == Busy(t) /\ Head(threads[t]).op = op /\ Head(threads[t]).l = l
Holds(t, l) == locks[l].w = t \/ t \in locks[l].r

\* Whether the thread's next step can be taken now.  RwLock::read may or may
\* not let a reader pass a waiting writer; writer_first fixes which.
CanStep(t) ==
    LET s == Head(threads[t])
    IN  CASE s.op = "read" ->
                 /\ locks[s.l].w = NoThread
                 /\ writer_first => ~\E u \in Threads \ {t} : Wants(u, "write", s.l)
          [] s.op \in {"write", "lock"} ->
                 locks[s.l].w = NoThread /\ locks[s.l].r = {}
          [] OTHER -> TRUE

\* A thread comes to one of its sections.
Call(t, body) ==
    /\ ~Busy(t)
    /\ threads' = [threads EXCEPT ![t] = body]
    /\ UNCHANGED <<locks, writer_first>>
    /\ UNCHANGED <<storeVars, connVars, recvVars, sendVars, budget, builderVars,
                   metrics, instants, chokeVars, selVars, codecVars, mapVars,
                   timeVars, queueVars>>

\* A thread takes its next step.
LockStep(t) ==
    /\ Busy(t)
    /\ CanStep(t)
    /\ LET s == Head(threads[t])
       IN  locks' =
               CASE s.op = "read" -> [locks EXCEPT ![s.l].r = @ \cup {t}]
                 [] s.op \in {"write", "lock"} -> [locks EXCEPT ![s.l].w = t]
                 [] s.op = "unlock" ->
                        [locks EXCEPT ![s.l] =
                            IF @.w = t THEN [@ EXCEPT !.w = NoThread]
                            ELSE [@ EXCEPT !.r = @ \ {t}]]
                 [] OTHER -> locks
    /\ threads' = [threads EXCEPT ![t] = Tail(@)]
    /\ UNCHANGED writer_first
    /\ UNCHANGED <<storeVars, connVars, recvVars, sendVars, budget, builderVars,
                   metrics, instants, chokeVars, selVars, codecVars, mapVars,
                   timeVars, queueVars>>

LockInit ==
    /\ Established(0, TRUE, TRUE)
    /\ NoBuilder
    /\ NoChoker
    /\ NoSelector
    /\ NoCodec
    /\ NoBitmap
    /\ NoTimers
    /\ NoQueue
    /\ locks = [l \in LockNames |-> [w |-> NoThread, r |-> {}]]
    /\ threads = [t \in Threads |-> <<>>]
    /\ writer_first \in BOOLEAN

LockNext ==
    \/ \E t \in Threads : \E body \in HandlersOf(t) : Call(t, body)
    \/ \E t \in Threads : LockStep(t)

LockSpec == LockInit /\ [][LockNext]_vars

\* t cannot take its next step and u is in its way: u holds the lock, or u
\* is a waiting writer that keeps the reader t out.
WaitsFor(t, u) ==
    /\ Busy(t)
    /\ ~CanStep(t)
    /\ LET s == Head(threads[t])
       IN  \/ Holds(u, s.l)
           \/ s.op = "read" /\ writer_first /\ u # t /\ Wants(u, "write", s.l)

\* A set of threads each of which waits for one of the set.
Deadlocked(D) == D # {} /\ \A t \in D : \E u \in D : WaitsFor(t, u)

\* The order the locks are taken in: the store before the handlers mutex and
\* before an availability; nothing is taken under any other lock.
Rank(l) == IF l = StoreLock THEN 0 ELSE IF l[1] \in {"handlers", "availability"} THEN 1 ELSE 2
Ordered ==
    \A t \in Threads : \A l \in LockNames :
        Holds(t, l) /\ Busy(t) /\ Head(threads[t]).op \in {"read", "write", "lock"} =>
            /\ Rank(l) < Rank(Head(threads[t]).l)
            /\ Rank(Head(threads[t]).l) < 2

\* C37: no deadlock: the locks are never taken in a cyclic order, a thread
\* that sends on a channel under the store lock does not wait there, and no
\* set of threads waits on each other.
C37_NoDeadlock ==
    /\ \A D \in SUBSET Threads : ~Deadlocked(D)
    /\ Ordered
    /\ \A t \in Threads : Busy(t) /\ Head(threads[t]).op = "send" => CanStep(t)

\* A receiver broadcasts under the store's write lock and the handlers mutex
\* while its own sender waits for the store and the acceptor too.
C37_Witness ==
    \E c \in Peers :
        /\ Holds(Thread("receiver", c), StoreLock)
        /\ Holds(Thread("receiver", c), HandlersLock)
        /\ Wants(Thread("receiver", c), "send", <<"chan", c>>)
        /\ WaitsFor(Thread("sender", c), Thread("receiver", c))
        /\ WaitsFor(Thread("acceptor", ""), Thread("receiver", c))

\* --------------------------------------------------------------- pipelining
\* One sender's pending set and request queue over a torrent with more
\* pieces than the queue is long, with each selector the store can be given.
\* The peer has every piece.
NumPiecesQueue == 9
QueueIdx == 0 .. NumPiecesQueue - 1

\* The pieces request_pieces may hand out: neither stored nor reserved.
QueueRequired(q) == {i \in QueueIdx : q.data[i] = "absent"}

\* Sender::queue_pieces: the outcomes the selector allows.
QueuePieces(q) ==
    IF q.interested /\ ~q.peer_choked /\ Cardinality(q.pending) <= QUEUE_LENGTH \div 2
    THEN {IF Len(v) = 0
          THEN IF q.pending = {} THEN [q EXCEPT !.interested = FALSE] ELSE q
          ELSE [q EXCEPT !.pending = @ \cup Range(v),
                         !.requests = @ \o v,
                         !.data = [i \in QueueIdx |->
                                     IF i \in Range(v) THEN "mine" ELSE @[i]]] :
          v \in Selector_request_pieces(q.kind, q.rar, QueueRequired(q),
                                        QueueIdx, queue_n(q))}
    ELSE {q}

\* One pass of the main loop: a queued Request is written, and pieces are
\* queued when few are pending.
QueuePass ==
    /\ queue.requests # <<>> \/ Cardinality(queue.pending) <= QUEUE_LENGTH \div 2
    /\ LET q == [queue EXCEPT !.requests = IF @ = <<>> THEN @ ELSE Tail(@)]
       IN  queue' \in (IF Cardinality(q.pending) <= QUEUE_LENGTH \div 2
                       THEN QueuePieces(q) ELSE {q})
    /\ UNCHANGED <<storeVars, connVars, recvVars, sendVars, budget, builderVars,
                   metrics, instants, chokeVars, selVars, codecVars, mapVars,
                   timeVars, lockVars>>

\* BitFieldReceived or PeerHave with a needed piece: interested(true).
QueueInterested ==
    /\ queue' \in QueuePieces([queue EXCEPT !.interested = TRUE])
    /\ queue' # queue
    /\ UNCHANGED <<storeVars, connVars, recvVars, sendVars, budget, builderVars,
                   metrics, instants, chokeVars, selVars, codecVars, mapVars,
                   timeVars, lockVars>>

\* PeerChoke: the receiver has set the flag; on Choke the pending set, the
\* queue and the reservations go, on Unchoke pieces are queued.
QueuePeerChoke(choke) ==
    /\ queue.peer_choked # choke
    /\ queue' \in (IF choke
                   THEN {[queue EXCEPT !.peer_choked = TRUE,
                                       !.pending = {},
                                       !.requests = <<>>,
                                       !.data = [i \in QueueIdx |->
                                                   IF @[i] = "mine" THEN "absent" ELSE @[i]]]}
                   ELSE QueuePieces([queue EXCEPT !.peer_choked = FALSE]))
    /\ UNCHANGED <<storeVars, connVars, recvVars, sendVars, budget, builderVars,
                   metrics, instants, chokeVars, selVars, codecVars, mapVars,
                   timeVars, lockVars>>

\* ClientHave(index) after some receiver stored the piece: it leaves the
\* pending set.
QueueClientHave(index) ==
    /\ queue.data[index] # "done"
    /\ queue' = [queue EXCEPT !.data[index] = "done", !.pending = @ \ {index}]
    /\ UNCHANGED <<storeVars, connVars, recvVars, sendVars, budget, builderVars,
                   metrics, instants, chokeVars, selVars, codecVars, mapVars,
                   timeVars, lockVars>>

QueueInit ==
    /\ Established(0, TRUE, TRUE)
    /\ NoBuilder
    /\ NoChoker
    /\ NoSelector
    /\ NoCodec
    /\ NoBitmap
    /\ NoTimers
    /\ NoLocks
    /\ \E kind \in Selectors :
       \E rar \in {[k \in 1 .. NumPiecesQueue |-> k],
                   [k \in 1 .. NumPiecesQueue |-> k \div 2]} :
          queue = [kind |-> kind, rar |-> rar, interested |-> FALSE,
                   peer_choked |-> TRUE, pending |-> {}, requests |-> <<>>,
                   data |-> [i \in QueueIdx |-> "absent"]]

QueueNext ==
    \/ QueuePass
    \/ QueueInterested
    \/ \E choke \in BOOLEAN : QueuePeerChoke(choke)
    \/ \E index \in QueueIdx : QueueClientHave(index)

QueueSpec == QueueInit /\ [][QueueNext]_vars

\* C38: the pending set never holds more than QUEUE_LENGTH indices; it grows
\* only from at most QUEUE_LENGTH / 2 and by at most QUEUE_LENGTH minus what
\* is pending.
C38_PendingBound ==
    /\ [](Cardinality(queue.pending) <= QUEUE_LENGTH)
    /\ [][~(queue'.pending \subseteq queue.pending) =>
            /\ Cardinality(queue.pending) <= QUEUE_LENGTH \div 2
            /\ Cardinality(queue'.pending \ queue.pending)
                 <= QUEUE_LENGTH - Cardinality(queue.pending)]_vars

\* The queue is full again after three of the first five pieces arrived,
\* while a piece could still be handed out.
C38_Witness ==
    /\ Cardinality(queue.pending) = QUEUE_LENGTH
    /\ QueueRequired(queue) # {}
    /\ Cardinality({i \in QueueIdx : queue.data[i] = "done"}) = 3

\* ---------------------------------------------------- the connection state
\* Both directions on established connections: the peer announces, chokes
\* and shows interest while the choker commands.
MaxEventsFlags == 4

FlagsInit == Established(MaxEventsFlags, TRUE, TRUE) /\ NoBuilder /\ NoUnits

FlagsNext ==
    \E c \in Peers :
        \/ RecvBitField(c, PieceIdx)
        \/ \E b \in BOOLEAN : RecvChoke(c, b)
        \/ \E b \in BOOLEAN : RecvInterest(c, b)
        \/ \E b \in BOOLEAN : ChokerCommand(c, Choke(b))
        \/ Sender(c)

FlagsSpec == FlagsInit /\ [][FlagsNext]_vars

Flags == {"client_choked", "client_interested", "peer_choked", "peer_interested"}
FlagsWritten(c) == {f \in Flags : state'[c][f] # state[c][f]}

\* C39: client_choked and client_interested are written only by the
\* connection's sender, peer_choked and peer_interested only by its
\* receiver, and a handler that sets one flag leaves the other three alone.
C39_FlagWriters ==
    [][\A c \in Peers :
          /\ FlagsWritten(c) \cap {"client_choked", "client_interested"} # {} =>
                SenderCommand(c) \/ SenderPass(c)
          /\ "peer_choked" \in FlagsWritten(c) => \E b \in BOOLEAN : RecvChoke(c, b)
          /\ "peer_interested" \in FlagsWritten(c) => \E b \in BOOLEAN : RecvInterest(c, b)
          /\ Cardinality(FlagsWritten(c)) <= 1]_vars

\* Each of the four flags of a connection has been written.
C39_Witness ==
    \E c \in Peers :
        /\ ~state[c].client_choked
        /\ state[c].client_interested
        /\ ~state[c].peer_choked
        /\ state[c].peer_interested

\* The connections the choker holds.
Held == Range(connections) \cup Range(optimistic_unchoke)

\* Every connection the choker holds is in one place, once.
HeldOnce ==
    /\ Len(optimistic_unchoke) <= 1
    /\ Range(optimistic_unchoke) \cap Range(connections) = {}
    /\ \A j \in 1 .. Len(connections) : \A k \in 1 .. Len(connections) :
          j # k => connections[j] # connections[k]

\* setup() keeps the connections that answer the Ping and drops the others.
SetupKeepsAnswering ==
    ticks' = ticks + 1 => Held' = {c \in Held : conn[c].alive}

\* C40: every connection the choker holds is in exactly one place, the list
\* or the optimistic slot, and only once; there is at most one optimistic
\* connection; setup() keeps every held connection that answered the Ping
\* and drops those whose probe failed.
C40_HeldOnce == []HeldOnce /\ [][SetupKeepsAnswering]_vars

\* A pass has dropped a dead connection, from the list or from the slot, and
\* holds the others, one of them in the slot.
C40_Witness ==
    /\ ticks > 0
    /\ optimistic_unchoke # <<>>
    /\ \E c \in DOMAIN conn : ~conn[c].alive /\ c \notin Held
    /\ Cardinality(Held) = NumConnsLoop - 1
====
